---- MODULE Spec2Model ----
(***************************************************************************)
(* Model of the mini-os kernel: the task scheduler (os/src/task), the trap *)
(* dispatch (os/src/trap), the timer (os/src/timer.rs) and the system-call *)
(* surface (os/src/syscall).                                               *)
(*                                                                         *)
(* One hardware thread.  pc says where it is:                              *)
(*   "boot"          rust_main, before run_first_task                      *)
(*   "user"          U-mode, running tasks[current_task]                   *)
(*   "trap_handler"  __alltraps has saved the registers, trap_handler is   *)
(*                   about to run                                          *)
(*   "switched"      __switch has loaded the task context of               *)
(*                   tasks[current_task]; that task's kernel path resumes  *)
(*   "shutdown"      sbi::shutdown(false) was requested                    *)
(*   "panic"         the kernel panicked                                   *)
(*   "find", "found" only in SpecFind: before/after one find_next_task     *)
(*                                                                         *)
(* Memory management (os/src/mm) has specifications of its own: SpecFrame  *)
(* and SpecFrameRaw run the frame allocator, SpecPT runs map and unmap on  *)
(* one page table; mm_pc is "panic" once one of its operations panicked.   *)
(***************************************************************************)
EXTENDS Integers, Sequences, FiniteSets, TLC

\* ---------------------------------------------------------------- bounds
NumApp  == 3        \* loader::get_num_app(): number of embedded applications
MaxTime == 60000    \* mtime stops advancing here
TimeStep == 20000   \* one Tick of mtime
FaStart == 2        \* first PPN past the kernel image (ekernel, rounded up)
NumFrames == 4      \* frames between ekernel and MEMORY_END
MaxOps  == 3        \* frame_alloc / frame_dealloc calls beyond one per frame
PpnWidth == 12      \* bits of a PPN (44 on the machine)
AsidWidth == 2      \* bits of the ASID field of satp (16 on the machine)
PtEntries == 5      \* entries of one page-table page (512 on the machine)
MsFrames == 24      \* frames of the allocator when memory sets are built
MaxAreas == 2       \* areas pushed on a memory set built by hand
MaxSlices == 3      \* slices the kernel heap has room for in one Vec
MaxWaits == 3       \* answers of sys_waitpid that are counted
MaxRuns == 7        \* SpecYield records this many entries to U-mode

\* ------------------------------------------------------ program constants
CLOCK_FREQ    == 10000000
TICKS_PER_SEC == 500
FD_STDOUT     == 1
SYSCALL_WRITE == 64
SYSCALL_EXIT  == 93
SYSCALL_YIELD == 124

Tasks == 0 .. NumApp - 1
None  == -1         \* Option::None of find_next_task

\* TaskStatus (task/task.rs)
TaskStatus == {"UnInit", "Ready", "Running", "Exited"}

\* scause values the model raises from U-mode
Faults == {"StoreFault", "LoadFault", "StorePageFault", "LoadPageFault",
           "IllegalInstruction"}

\* ------------------------------------------------------------ memory
\* A small address range stands for the 64-bit address space.  Every
\* address is mapped in each user address space; the kernel address space
\* maps only the upper half (kernel image / RAM), with different contents.
Addrs == 0 .. 4
UserByte(t, a)  == 97 + 5 * t + a           \* 'a'.. : bytes of task t at VA a
KernelMapped(a) == a >= 2
KernelByte(a)   == IF a < 4 THEN 73 + a ELSE 255 \* "KL", then a non-UTF-8 byte

\* core::str::from_utf8 on the byte values of the model: ASCII is valid,
\* 0xFF never occurs in UTF-8.
IsUtf8(bytes) == \A i \in 1 .. Len(bytes) : bytes[i] < 128

\* what a user task may load into a7, a0, a1, a2 before an ecall
YieldEcalls ==
    [x17 : {SYSCALL_YIELD}, x10 : {5}, x11 : {0}, x12 : {0}]
    \cup [x17 : {SYSCALL_EXIT}, x10 : {0}, x11 : {0}, x12 : {0}]
Ecalls ==
    YieldEcalls
    \cup [x17 : {SYSCALL_WRITE}, x10 : {FD_STDOUT}, x11 : {0}, x12 : {1}]
    \cup [x17 : {SYSCALL_WRITE}, x10 : {FD_STDOUT}, x11 : {2}, x12 : {0, 2}]
    \cup [x17 : {SYSCALL_WRITE}, x10 : {FD_STDOUT}, x11 : {3}, x12 : {2}]
    \cup [x17 : {SYSCALL_WRITE}, x10 : {2}, x11 : {2}, x12 : {1}]
    \cup [x17 : {0}, x10 : {0}, x11 : {0}, x12 : {0}]
UserPCs == {0}      \* address of the user instruction that traps

VARIABLES
    task_status,    \* tasks[i].task_status
    task_ctx,       \* tasks[i].task_ctx: where the task's kernel path resumes
    current_task,   \* TaskManagerInner.current_task
    trap_ctx,       \* the TrapContext page of each task
    pc,
    scause,
    time,           \* mtime
    timer,          \* deadline given to sbi::set_timer
    console,        \* bytes printed by the last sys_write
    klog,           \* kernel operations performed by the last trap_handler run
    waited,         \* run_next decisions that passed over a Ready task
    run_seq,        \* ids that entered U-mode, in order (SpecYield only)
    fn_res,         \* result of find_next_task (SpecFind only)
    satp,           \* the address-translation CSR
    stvec,          \* the trap-vector CSR: the address traps jump to
    cells,          \* the UPSafeCells: which are borrowed, BorrowMutError
    fa,             \* FRAME_ALLOCATOR: current, end, recycled
    mem,            \* physical frames, each an array of PtEntries words
    trackers,       \* live FrameTrackers per PPN, outside page tables
    fa_hist,        \* frame_alloc / frame_dealloc calls so far, with results
    mm_pc,          \* "run", or "panic" once a memory operation panicked
    pt,             \* a PageTable: root_ppn, frames
    mapped,         \* per VPN: arguments of the map not yet unmapped
    areas,          \* MemorySet.areas of the memory set that owns pt
    ms,             \* the memory-set operation under way: input, results
    tbb,            \* the translated_byte_buffer call under way
    uw              \* the user-library wait / waitpid call of a task

task_vars == <<task_status, task_ctx, current_task, trap_ctx, pc, scause,
               time, timer, console, klog, waited, run_seq, fn_res, satp,
               stvec, cells>>

ms_vars == <<areas, ms, tbb, uw>>

mm_vars == <<fa, mem, trackers, fa_hist, mm_pc, pt, mapped, ms_vars>>

vars == <<task_vars, mm_vars>>

\* MemorySet::satp of task t's memory set: the root frames of distinct
\* memory sets are distinct frames, so the tokens differ
task_satp(t) == t

\* KERNEL_SPACE.satp()
KernelSatp == NumApp

Min(a, b) == IF a < b THEN a ELSE b

Last(s) == s[Len(s)]

\* -------------------------------------------------------------- sync.rs
\* the lazy_static cells of the kernel
Cells == {"TASK_MANAGER", "KERNEL_SPACE", "FRAME_ALLOCATOR"}

\* no RefMut alive
NoBorrow == [held |-> {}, panic |-> FALSE]

\* UPSafeCell::exclusive_access: RefCell::borrow_mut, which panics when the
\* cell is borrowed already; nothing runs after a panic
exclusive_access(c, cell) ==
    IF c.panic THEN c
    ELSE IF cell \in c.held THEN [c EXCEPT !.panic = TRUE]
    ELSE [c EXCEPT !.held = @ \cup {cell}]

\* the RefMut goes out of scope or is dropped
drop_ref(c, cell) == IF c.panic THEN c ELSE [c EXCEPT !.held = @ \ {cell}]

\* a function or statement that borrows one cell and touches no other
\* before the RefMut dies
borrow_in_scope(c, cell) == drop_ref(exclusive_access(c, cell), cell)

\* frame_alloc / frame_dealloc: the RefMut is a temporary of the statement
frame_alloc_cells(c) == borrow_in_scope(c, "FRAME_ALLOCATOR")

\* TaskControlBlock::new: insert_framed_area allocates frames under the
\* borrow of KERNEL_SPACE; from_elf allocates frames; KERNEL_SPACE is
\* borrowed again for its token
TaskControlBlock_new_cells(c) ==
    LET stack == drop_ref(frame_alloc_cells(
                     exclusive_access(c, "KERNEL_SPACE")), "KERNEL_SPACE")
    IN  borrow_in_scope(frame_alloc_cells(stack), "KERNEL_SPACE")

\* lazy_static TASK_MANAGER: one TaskControlBlock::new per application
RECURSIVE TASK_MANAGER_init_cells(_, _)
TASK_MANAGER_init_cells(c, n) ==
    IF n = 0 THEN c
    ELSE TaskControlBlock_new_cells(TASK_MANAGER_init_cells(c, n - 1))

\* mark_current_suspended, mark_current_exited, find_next_task,
\* get_current_satp, get_current_trap_ctx_mut: inner lives to the end of
\* the function
inner_in_scope(c) == borrow_in_scope(c, "TASK_MANAGER")

\* mutant: inner is still borrowed when __switch runs
drop_inner_none(c) == c

\* drop(inner) before __switch
drop_inner(c) == drop_ref(c, "TASK_MANAGER")

\* run_next_task: find_next_task, then inner is borrowed and dropped when
\* a task was found
run_next_task_cells(c, found) ==
    IF found
    THEN drop_inner(exclusive_access(inner_in_scope(c), "TASK_MANAGER"))
    ELSE inner_in_scope(c)

\* run_first_task: the first use of TASK_MANAGER builds it
run_first_task_cells(c) ==
    drop_inner(exclusive_access(TASK_MANAGER_init_cells(c, NumApp),
                                "TASK_MANAGER"))

\* ------------------------------------------------------------- timer.rs
get_time == time

\* mutant: the next deadline is counted from the old deadline, not from now
set_next_trigger_from_deadline == timer' = timer + CLOCK_FREQ \div TICKS_PER_SEC

set_next_trigger == timer' = get_time + CLOCK_FREQ \div TICKS_PER_SEC

\* ---------------------------------------------------------- task/mod.rs
\* mutant: a suspended task is marked Exited
mark_current_suspended_exited(ts) == [ts EXCEPT ![current_task] = "Exited"]

mark_current_suspended(ts) == [ts EXCEPT ![current_task] = "Ready"]

\* mutant: an exiting task is left schedulable
mark_current_exited_ready(ts) == [ts EXCEPT ![current_task] = "Ready"]

mark_current_exited(ts) == [ts EXCEPT ![current_task] = "Exited"]

\* mutant: the last Ready task of the scan instead of the first
find_next_task_last(ts, current) ==
    LET app_id(k) == (current + k) % NumApp
        hits == {k \in 1 .. NumApp : ts[app_id(k)] = "Ready"}
    IN  IF hits = {} THEN None
        ELSE app_id(CHOOSE k \in hits : \A j \in hits : k >= j)

\* mutant: the scan starts at task 0 instead of just past current
find_next_task_lowest(ts, current) ==
    LET hits == {t \in Tasks : ts[t] = "Ready"}
    IN  IF hits = {} THEN None
        ELSE CHOOSE t \in hits : \A u \in hits : t <= u

\* mutant: the scan starts at current (current .. current+num_app)
find_next_task_from_current(ts, current) ==
    LET app_id(k) == (current + k) % NumApp
        hits == {k \in 0 .. NumApp - 1 : ts[app_id(k)] = "Ready"}
    IN  IF hits = {} THEN None
        ELSE app_id(CHOOSE k \in hits : \A j \in hits : k <= j)

\* mutant: the scan stops before current (current+1 .. current+num_app)
find_next_task_no_wrap(ts, current) ==
    LET app_id(k) == (current + k) % NumApp
        hits == {k \in 1 .. NumApp - 1 : ts[app_id(k)] = "Ready"}
    IN  IF hits = {} THEN None
        ELSE app_id(CHOOSE k \in hits : \A j \in hits : k <= j)

\* (current+1 .. current+num_app+1).map(% num_app).find(status == Ready)
find_next_task(ts, current) ==
    LET app_id(k) == (current + k) % NumApp
        hits == {k \in 1 .. NumApp : ts[app_id(k)] = "Ready"}
    IN  IF hits = {} THEN None
        ELSE app_id(CHOOSE k \in hits : \A j \in hits : k <= j)

\* mutant: the token of tasks[0], whichever task is current
get_current_satp_first == task_satp(0)

\* inner.tasks[current].satp()
get_current_satp == task_satp(current_task)

\* mutant: the next task is marked Running but current_task is not moved
run_next_task_keep_current(ts, resume) ==
    LET next_app_id == find_next_task(ts, current_task)
        c == run_next_task_cells(inner_in_scope(inner_in_scope(cells)),
                                 next_app_id # None)
    IN  /\ cells' = c
        /\ IF c.panic
           THEN /\ pc' = "panic"
                /\ UNCHANGED <<task_status, current_task, task_ctx, waited>>
           ELSE IF next_app_id # None
           THEN /\ task_status' = [ts EXCEPT ![next_app_id] = "Running"]
                /\ current_task' = current_task
                /\ task_ctx' = [task_ctx EXCEPT ![current_task] = resume]
                /\ pc' = "switched"
                /\ waited' = [t \in Tasks |->
                       IF t # next_app_id /\ t # current_task
                          /\ ts[t] = "Ready"
                       THEN Min(waited[t] + 1, NumApp + 1) ELSE 0]
           ELSE /\ task_status' = ts
                /\ UNCHANGED <<current_task, task_ctx, waited>>
                /\ pc' = "shutdown"

\* run_next_task after the status of current was set to ts[current_task];
\* resume is the place of the caller, kept in the outgoing task context by
\* __switch.  On the way here trap_handler took the trap context and
\* mark_current_* set the status, each under its own borrow of inner; a
\* BorrowMutError stops the kernel.
run_next_task(ts, resume) ==
    LET next_app_id == find_next_task(ts, current_task)
        c == run_next_task_cells(inner_in_scope(inner_in_scope(cells)),
                                 next_app_id # None)
    IN  /\ cells' = c
        /\ IF c.panic
           THEN /\ pc' = "panic"
                /\ UNCHANGED <<task_status, current_task, task_ctx, waited>>
           ELSE IF next_app_id # None
           THEN /\ task_status' = [ts EXCEPT ![next_app_id] = "Running"]
                /\ current_task' = next_app_id
                /\ task_ctx' = [task_ctx EXCEPT ![current_task] = resume]
                /\ pc' = "switched"
                /\ waited' = [t \in Tasks |->
                       IF t # next_app_id /\ t # current_task
                          /\ ts[t] = "Ready"
                       THEN Min(waited[t] + 1, NumApp + 1) ELSE 0]
           ELSE /\ task_status' = ts
                /\ UNCHANGED <<current_task, task_ctx, waited>>
                /\ pc' = "shutdown"

suspend_current_and_run_next(resume) ==
    run_next_task(mark_current_suspended(task_status), resume)

exit_current_and_run_next(resume) ==
    run_next_task(mark_current_exited(task_status), resume)

\* mutant: the handler leaves stvec as the trap found it
set_kernel_trap_entry_none(v) == v

\* trap::set_kernel_trap_entry: stvec takes the address of trap_from_kernel
\* whatever it held
set_kernel_trap_entry(v) == "trap_from_kernel"

\* trap::set_user_trap_entry: stvec takes TRAMPOLINE_ADDR, where __alltraps
\* is mapped
set_user_trap_entry(v) == "TRAMPOLINE_ADDR"

\* ------------------------------------------------------------------ boot
\* rust_main: trap::init, load_apps, enable_timer_interrupt, run_first_task;
\* __switch enters task 0's context, whose ra is trap_return.
RunFirstTask ==
    /\ pc = "boot"
    /\ set_next_trigger
    /\ \E c \in {run_first_task_cells(cells)} :
          /\ cells' = c
          /\ task_status' = IF c.panic THEN task_status
                            ELSE [task_status EXCEPT ![0] = "Running"]
          /\ pc' = IF c.panic THEN "panic" ELSE "switched"
    /\ UNCHANGED <<task_ctx, current_task, trap_ctx, scause, time, console,
                   klog, waited, run_seq, fn_res, satp>>
    /\ stvec' = set_kernel_trap_entry(stvec)
    /\ UNCHANGED mm_vars

\* --------------------------------------------------------------- U-mode
\* mtime advances while the task runs; a trap is handled within one reading
\* of it
Tick ==
    /\ pc = "user"
    /\ time + TimeStep <= MaxTime
    /\ time' = time + TimeStep
    /\ UNCHANGED <<task_status, task_ctx, current_task, trap_ctx, pc, scause,
                   timer, console, klog, waited, run_seq, fn_res, satp,
                   stvec, cells>>
    /\ UNCHANGED mm_vars

\* __alltraps: the registers of the running task go to the TrapContext page
\* of the address space in satp, then satp takes the kernel token
UserEcallFrom(calls) ==
    /\ pc = "user"
    /\ \E upc \in UserPCs, r \in calls :
          trap_ctx' = [trap_ctx EXCEPT ![satp] =
              [sepc |-> upc, x10 |-> r.x10, x11 |-> r.x11, x12 |-> r.x12,
               x17 |-> r.x17]]
    /\ scause' = "UserEnvCall"
    /\ pc' = "trap_handler"
    /\ satp' = KernelSatp
    /\ UNCHANGED <<stvec, cells>>
    /\ klog' = <<>>
    /\ UNCHANGED <<task_status, task_ctx, current_task, time, timer, console,
                   waited, run_seq, fn_res>>
    /\ UNCHANGED mm_vars

UserEcall == UserEcallFrom(Ecalls)

\* the yield-only workload of SpecYield
YieldEcall == UserEcallFrom(YieldEcalls)

UserException ==
    /\ pc = "user"
    /\ \E c \in Faults \cup {"Breakpoint"} : scause' = c
    /\ pc' = "trap_handler"
    /\ satp' = KernelSatp
    /\ UNCHANGED <<stvec, cells>>
    /\ klog' = <<>>
    /\ UNCHANGED <<task_status, task_ctx, current_task, trap_ctx, time, timer,
                   console, waited, run_seq, fn_res>>
    /\ UNCHANGED mm_vars

TimerInterrupt ==
    /\ pc = "user"
    /\ time >= timer
    /\ scause' = "SupervisorTimer"
    /\ pc' = "trap_handler"
    /\ satp' = KernelSatp
    /\ UNCHANGED <<stvec, cells>>
    /\ klog' = <<>>
    /\ UNCHANGED <<task_status, task_ctx, current_task, trap_ctx, time, timer,
                   console, waited, run_seq, fn_res>>
    /\ UNCHANGED mm_vars

\* ------------------------------------------------------------ trap/mod.rs
\* Trap::Interrupt(SupervisorTimer): set_next_trigger, then
\* suspend_current_and_run_next
HandleTimer ==
    /\ pc = "trap_handler"
    /\ scause = "SupervisorTimer"
    /\ set_next_trigger
    /\ suspend_current_and_run_next("timer")
    /\ klog' = <<"set_next_trigger", "suspend_current_and_run_next">>
    /\ UNCHANGED <<trap_ctx, scause, time, console, run_seq, fn_res, satp>>
    /\ stvec' = set_kernel_trap_entry(stvec)
    /\ UNCHANGED mm_vars

\* mutant: sepc is left at the ecall
advance_sepc_none(ctx) == ctx

\* ctx.sepc += 4
advance_sepc(ctx) == [ctx EXCEPT !.sepc = @ + 4]

\* mutant: the return value is dropped
store_ret_none(ctx, ret) == ctx

\* ctx.x[10] = syscall(..) as usize
store_ret(ctx, ret) == [ctx EXCEPT !.x10 = ret]

\* syscall(id, args): the function the id selects
syscall(id) ==
    CASE id = SYSCALL_WRITE -> "sys_write"
      [] id = SYSCALL_EXIT  -> "sys_exit"
      [] id = SYSCALL_YIELD -> "sys_yield"
      [] OTHER              -> "unknown"

IsSyscall(name) ==
    /\ pc = "trap_handler"
    /\ scause = "UserEnvCall"
    /\ syscall(trap_ctx[current_task].x17) = name

\* syscall/fs.rs sys_write: core::slice::from_raw_parts(buf, len) is read by
\* the kernel, in the kernel address space; an unmapped address traps in
\* S-mode (trap_from_kernel panics), bytes that are not UTF-8 fail the
\* expect, and any fd but FD_STDOUT panics.
sys_write_bytes(buf, len) == [i \in 1 .. len |-> KernelByte(buf + i - 1)]

sys_write_ok(fd, buf, len) ==
    /\ fd = FD_STDOUT
    /\ \A a \in buf .. buf + len - 1 : a \in Addrs /\ KernelMapped(a)
    /\ IsUtf8(sys_write_bytes(buf, len))

HandleWrite ==
    /\ IsSyscall("sys_write")
    /\ LET ctx == advance_sepc(trap_ctx[current_task])
           entry == inner_in_scope(cells)
           ret == inner_in_scope(entry)
       IN  IF sys_write_ok(ctx.x10, ctx.x11, ctx.x12) /\ ~ret.panic
           THEN /\ console' = sys_write_bytes(ctx.x11, ctx.x12)
                /\ cells' = ret
                /\ trap_ctx' = [trap_ctx EXCEPT ![current_task] =
                                    store_ret(ctx, ctx.x12)]
                /\ pc' = "user"
                /\ satp' = get_current_satp
                /\ stvec' = set_user_trap_entry(set_kernel_trap_entry(stvec))
                /\ klog' = <<"sepc", "sys_write", "x10", "trap_return">>
           ELSE /\ trap_ctx' = [trap_ctx EXCEPT ![current_task] = ctx]
                /\ pc' = "panic"
                /\ stvec' = set_kernel_trap_entry(stvec)
                /\ klog' = <<"sepc", "sys_write", "panic">>
                /\ cells' = entry
                /\ UNCHANGED <<console, satp>>
    /\ UNCHANGED <<task_status, task_ctx, current_task, scause, time, timer,
                   waited, run_seq, fn_res>>
    /\ UNCHANGED mm_vars

\* syscall/process.rs sys_yield
HandleYield ==
    /\ IsSyscall("sys_yield")
    /\ trap_ctx' = [trap_ctx EXCEPT ![current_task] = advance_sepc(@)]
    /\ suspend_current_and_run_next("sys_yield")
    /\ klog' = <<"sepc", "sys_yield", "suspend_current_and_run_next">>
    /\ UNCHANGED <<scause, time, timer, console, run_seq, fn_res, satp>>
    /\ stvec' = set_kernel_trap_entry(stvec)
    /\ UNCHANGED mm_vars

\* syscall/process.rs sys_exit
HandleExit ==
    /\ IsSyscall("sys_exit")
    /\ trap_ctx' = [trap_ctx EXCEPT ![current_task] = advance_sepc(@)]
    /\ exit_current_and_run_next("sys_exit")
    /\ klog' = <<"sepc", "sys_exit", "exit_current_and_run_next">>
    /\ UNCHANGED <<scause, time, timer, console, run_seq, fn_res, satp>>
    /\ stvec' = set_kernel_trap_entry(stvec)
    /\ UNCHANGED mm_vars

\* a syscall id the dispatcher does not know: the task is terminated
HandleUnknownSyscall ==
    /\ IsSyscall("unknown")
    /\ trap_ctx' = [trap_ctx EXCEPT ![current_task] = advance_sepc(@)]
    /\ exit_current_and_run_next("sys_exit")
    /\ klog' = <<"sepc", "unknown", "exit_current_and_run_next">>
    /\ UNCHANGED <<scause, time, timer, console, run_seq, fn_res, satp>>
    /\ stvec' = set_kernel_trap_entry(stvec)
    /\ UNCHANGED mm_vars

\* StoreFault | LoadFault and IllegalInstruction panic "[kernel] Cannot
\* continue!"; every other cause takes the catch-all arm, which panics too.
HandleFault ==
    /\ pc = "trap_handler"
    /\ scause \notin {"SupervisorTimer", "UserEnvCall"}
    /\ pc' = "panic"
    /\ klog' = <<"panic">>
    /\ cells' = inner_in_scope(cells)
    /\ UNCHANGED <<task_status, task_ctx, current_task, trap_ctx, scause,
                   time, timer, console, waited, run_seq, fn_res, satp>>
    /\ stvec' = set_kernel_trap_entry(stvec)
    /\ UNCHANGED mm_vars

\* The task switched in continues where its task context says: a new task
\* in trap_return; a preempted one returns from the timer arm to
\* trap_return; a yielding one returns 0 from sys_yield, the UserEnvCall arm
\* stores it through the ctx reference taken at handler entry, then
\* trap_return, which borrows inner for the token of the task.  sys_exit
\* panics if it is ever resumed.
Resume ==
    /\ pc = "switched"
    /\ trap_ctx' = IF task_ctx[current_task] = "sys_yield"
                   THEN [trap_ctx EXCEPT ![current_task] = store_ret(@, 0)]
                   ELSE trap_ctx
    /\ \E c \in {IF task_ctx[current_task] = "sys_exit" THEN cells
                  ELSE inner_in_scope(cells)} :
          /\ cells' = c
          /\ pc' = IF task_ctx[current_task] = "sys_exit" \/ c.panic
                   THEN "panic" ELSE "user"
          /\ satp' = IF task_ctx[current_task] = "sys_exit" \/ c.panic
                     THEN satp ELSE get_current_satp
    /\ stvec' = IF task_ctx[current_task] = "sys_exit" THEN stvec
              ELSE set_user_trap_entry(stvec)
    /\ UNCHANGED <<task_status, task_ctx, current_task, scause, time, timer,
                   console, klog, waited, fn_res>>
    /\ UNCHANGED mm_vars

ResumeTask == Resume /\ UNCHANGED run_seq

\* SpecYield: the same step, recording the task that enters U-mode and the
\* tasks that have exited by then
ResumeRecorded ==
    /\ Resume
    /\ Len(run_seq) < MaxRuns
    /\ run_seq' = Append(run_seq,
           [id |-> current_task,
            dead |-> {t \in Tasks : task_status[t] = "Exited"}])

\* SpecFind: one call of find_next_task on an arbitrary task table
FindNext ==
    /\ pc = "find"
    /\ fn_res' = find_next_task(task_status, current_task)
    /\ pc' = "found"
    /\ UNCHANGED <<task_status, task_ctx, current_task, trap_ctx, scause,
                   time, timer, console, klog, waited, run_seq, satp, stvec,
                   cells>>
    /\ UNCHANGED mm_vars

\* ================================================================== mm
FaEnd == FaStart + NumFrames

\* physical page numbers: the kernel image below FaStart, then the frames
\* the allocator manages
PPNs == 0 .. FaEnd - 1

\* a frame read as an array of words (PhysPageNum::get_pte_array)
PageIdx == 0 .. PtEntries - 1

ZeroPage == [i \in PageIdx |-> 0]

\* the pages that map and unmap are called for: two that share their
\* third-level page, one that shares only the second-level page with them,
\* and two on other paths
MapVpns == {0, 1, PtEntries, PtEntries * PtEntries,
            PtEntries * PtEntries * PtEntries - 1}

\* frames that pages are mapped to
MapPpns == {0, FaStart + NumFrames}

\* PTEFlags
PTE_V == 1
PTE_R == 2
PTE_W == 4
PTE_X == 8
PTE_U == 16

\* PageTableEntry::new: ppn.0 << 10 | flags.bits()
PageTableEntry_new(ppn, flags) == ppn * 1024 + flags

\* PageTableEntry::ppn: bits >> 10 & ((1 << 44) - 1), on PpnWidth bits
pte_ppn(bits) == (bits \div 1024) % (2 ^ PpnWidth)

\* PageTableEntry::flags: the low 8 bits
pte_flags(bits) == bits % 256

\* PageTableEntry::is_valid: flags().contains(V)
is_valid(bits) == pte_flags(bits) % 2 = 1

\* flags that map is called with: R, and V | R | W | U
MapFlags == {PTE_R, PTE_V + PTE_R + PTE_W + PTE_U}

\* flags | PTEFlags::V
with_V(flags) == IF flags % 2 = 1 THEN flags ELSE flags + PTE_V

\* what a frame holds after its owner used it: words that read as valid
\* entries pointing to the first managed frame
DirtyPage == [i \in PageIdx |-> PageTableEntry_new(FaStart, PTE_V + PTE_R)]

\* StackFrameAllocator::new
StackFrameAllocator_new == [current |-> 0, end |-> 0, recycled |-> <<>>]

\* StackFrameAllocator::init
StackFrameAllocator_init(a, start, end) ==
    [a EXCEPT !.current = start, !.end = end]

Range(q) == {q[i] : i \in 1 .. Len(q)}

Front(q) == SubSeq(q, 1, Len(q) - 1)

\* mutant: the oldest recycled frame is taken first
alloc_fifo(a) ==
    IF a.recycled # <<>>
    THEN [ret |-> Head(a.recycled), fa |-> [a EXCEPT !.recycled = Tail(@)]]
    ELSE IF a.current = a.end
    THEN [ret |-> None, fa |-> a]
    ELSE [ret |-> a.current, fa |-> [a EXCEPT !.current = @ + 1]]

\* mutant: the recycled frame is returned but stays on the stack
alloc_no_pop(a) ==
    IF a.recycled # <<>>
    THEN [ret |-> Last(a.recycled), fa |-> a]
    ELSE IF a.current = a.end
    THEN [ret |-> None, fa |-> a]
    ELSE [ret |-> a.current, fa |-> [a EXCEPT !.current = @ + 1]]

\* mutant: never-used frames are taken before recycled ones
alloc_bump_first(a) ==
    IF a.current # a.end
    THEN [ret |-> a.current, fa |-> [a EXCEPT !.current = @ + 1]]
    ELSE IF a.recycled # <<>>
    THEN [ret |-> Last(a.recycled), fa |-> [a EXCEPT !.recycled = Front(@)]]
    ELSE [ret |-> None, fa |-> a]

\* StackFrameAllocator::alloc: pop recycled, else none when current == end,
\* else current, which is advanced
alloc(a) ==
    IF a.recycled # <<>>
    THEN [ret |-> Last(a.recycled), fa |-> [a EXCEPT !.recycled = Front(@)]]
    ELSE IF a.current = a.end
    THEN [ret |-> None, fa |-> a]
    ELSE [ret |-> a.current, fa |-> [a EXCEPT !.current = @ + 1]]

\* StackFrameAllocator::dealloc: panics when ppn >= current or ppn is in
\* recycled, else pushes ppn
dealloc(a, ppn) ==
    IF ppn >= a.current \/ ppn \in Range(a.recycled)
    THEN [panic |-> TRUE, fa |-> a]
    ELSE [panic |-> FALSE, fa |-> [a EXCEPT !.recycled = Append(@, ppn)]]

\* mutant: the frame keeps what its last owner left
FrameTracker_new_dirty(m, ppn) == m

\* FrameTracker::new: the frame is filled with 0
FrameTracker_new(m, ppn) == [m EXCEPT ![ppn] = ZeroPage]

\* frame_alloc: alloc().map(FrameTracker::new)
FrameAlloc ==
    /\ mm_pc = "run"
    /\ Len(fa_hist) < MaxOps + NumFrames
    /\ LET r == alloc(fa)
       IN  /\ fa' = r.fa
           /\ IF r.ret = None
              THEN UNCHANGED <<mem, trackers>>
              ELSE /\ mem' = FrameTracker_new(mem, r.ret)
                   /\ trackers' = [trackers EXCEPT ![r.ret] = @ + 1]
           /\ fa_hist' = Append(fa_hist,
                  [op |-> "alloc", ppn |-> r.ret, before |-> fa,
                   panic |-> FALSE,
                   held |-> r.ret # None /\ trackers[r.ret] > 0,
                   dirty |-> r.ret # None /\ mem[r.ret] # ZeroPage])
    /\ UNCHANGED <<mm_pc, pt, mapped>>
    /\ UNCHANGED ms_vars
    /\ UNCHANGED task_vars

\* frame_dealloc(ppn)
frame_dealloc(ppn) ==
    /\ mm_pc = "run"
    /\ Len(fa_hist) < MaxOps + NumFrames
    /\ LET d == dealloc(fa, ppn)
       IN  /\ fa' = d.fa
           /\ mm_pc' = IF d.panic THEN "panic" ELSE "run"
           /\ fa_hist' = Append(fa_hist,
                  [op |-> "dealloc", ppn |-> ppn, before |-> fa,
                   panic |-> d.panic, held |-> FALSE, dirty |-> FALSE])
    /\ UNCHANGED <<mem, pt, mapped>>
    /\ UNCHANGED ms_vars
    /\ UNCHANGED task_vars

\* Drop for FrameTracker: frame_dealloc(self.ppn)
FrameDrop ==
    \E p \in PPNs :
        /\ trackers[p] > 0
        /\ frame_dealloc(p)
        /\ trackers' = [trackers EXCEPT ![p] = @ - 1]

\* the owner of a frame writes to it (PhysPageNum::get_bytes_array_mut)
FrameWrite ==
    /\ mm_pc = "run"
    /\ \E p \in PPNs :
          /\ trackers[p] > 0
          /\ mem[p] # DirtyPage
          /\ mem' = [mem EXCEPT ![p] = DirtyPage]
    /\ UNCHANGED <<fa, trackers, fa_hist, mm_pc, pt, mapped>>
    /\ UNCHANGED ms_vars
    /\ UNCHANGED task_vars

\* frame_dealloc called with any PPN, not through a FrameTracker
FrameDealloc ==
    /\ \E p \in 0 .. FaEnd : frame_dealloc(p)
    /\ UNCHANGED trackers

\* ------------------------------------------------------- page_table.rs
NumVpn == PtEntries * PtEntries * PtEntries

VPNs == 0 .. NumVpn - 1

\* VirtPageNum::get_sv39_indexes, PtEntries entries a level: bits >> 0,
\* bits >> 9, bits >> 18, each masked to one index
get_sv39_indexes(vpn) ==
    <<vpn % PtEntries,
      (vpn \div PtEntries) % PtEntries,
      (vpn \div (PtEntries * PtEntries)) % PtEntries>>

\* Option::None of find_pte_mut
NoPte == [ppn |-> None, idx |-> None]

\* find_pte_mut: the place of the third-level entry, or none as soon as one
\* of the first two entries is not valid; the third entry is not examined
find_pte_mut(p, m, vpn) ==
    LET idxs == get_sv39_indexes(vpn)
        e1 == m[p.root_ppn][idxs[1]]
        e2 == m[pte_ppn(e1)][idxs[2]]
    IN  IF ~is_valid(e1) THEN NoPte
        ELSE IF ~is_valid(e2) THEN NoPte
        ELSE [ppn |-> pte_ppn(e2), idx |-> idxs[3]]

\* translate: find_pte_mut(vpn).map(|pte| *pte); None is -1
translate(p, m, vpn) ==
    LET loc == find_pte_mut(p, m, vpn)
    IN  IF loc = NoPte THEN None ELSE m[loc.ppn][loc.idx]

\* F(x), with x evaluated once and handed to F as a value
Apply(x, F(_)) == CHOOSE r \in {F(v) : v \in {x}} : TRUE

\* mutant: the tracker of the new frame is not kept in frames
create_level_untracked(c, idx) ==
    LET level(v) ==
            LET e == v.mem[v.next][idx]
            IN  IF is_valid(e) THEN [v EXCEPT !.next = pte_ppn(e)]
                ELSE Apply(alloc(v.fa),
                           LAMBDA r :
                               IF r.ret = None THEN [v EXCEPT !.panic = TRUE]
                               ELSE [fa |-> r.fa,
                                     mem |-> [FrameTracker_new(v.mem, r.ret)
                                                 EXCEPT ![v.next][idx] =
                                                     PageTableEntry_new(
                                                         r.ret, PTE_V)],
                                     frames |-> v.frames,
                                     next |-> r.ret,
                                     panic |-> FALSE])
    IN  Apply(c, level)

\* one round of the loop of find_pte_create_mut: an entry that is not valid
\* gets a new frame, recorded in frames
create_level(c, idx) ==
    LET level(v) ==
            LET e == v.mem[v.next][idx]
            IN  IF is_valid(e) THEN [v EXCEPT !.next = pte_ppn(e)]
                ELSE Apply(alloc(v.fa),
                           LAMBDA r :
                               IF r.ret = None THEN [v EXCEPT !.panic = TRUE]
                               ELSE [fa |-> r.fa,
                                     mem |-> [FrameTracker_new(v.mem, r.ret)
                                                 EXCEPT ![v.next][idx] =
                                                     PageTableEntry_new(
                                                         r.ret, PTE_V)],
                                     frames |-> Append(v.frames, r.ret),
                                     next |-> r.ret,
                                     panic |-> FALSE])
    IN  Apply(c, level)

\* find_pte_create_mut: allocator, memory and frames after it, the place of
\* the third-level entry, or panic when frame_alloc fails
find_pte_create_mut(a, m, p, vpn) ==
    LET idxs == get_sv39_indexes(vpn)
        c0 == [fa |-> a, mem |-> m, frames |-> p.frames,
               next |-> p.root_ppn, panic |-> FALSE]
        second(c1) == IF c1.panic THEN c1 ELSE create_level(c1, idxs[2])
        result(c2) == [fa |-> c2.fa, mem |-> c2.mem, frames |-> c2.frames,
                       panic |-> c2.panic,
                       loc |-> [ppn |-> c2.next, idx |-> idxs[3]]]
    IN  Apply(Apply(create_level(c0, idxs[1]), second), result)

\* no map of the VPN is in force
NotMapped == [ppn |-> None, flags |-> None]

\* mutant: a valid third-level entry is overwritten
page_table_map_overwrite(s, vpn, ppn, flags) ==
    LET map(v) ==
            IF v.panic THEN v
            ELSE Apply(find_pte_create_mut(v.fa, v.mem, v.pt, vpn),
                       LAMBDA c :
                           [v EXCEPT
                               !.fa = c.fa,
                               !.pt = [v.pt EXCEPT !.frames = c.frames],
                               !.mem = IF ~c.panic
                                       THEN [c.mem EXCEPT
                                                ![c.loc.ppn][c.loc.idx] =
                                                    PageTableEntry_new(
                                                        ppn, with_V(flags))]
                                       ELSE c.mem,
                               !.panic = c.panic])
    IN  Apply(s, map)

\* PageTable::map on the state s = [fa, mem, pt, panic, ..]: the entry found
\* by find_pte_create_mut must not be valid, and becomes
\* PageTableEntry::new(ppn, flags | V)
page_table_map(s, vpn, ppn, flags) ==
    LET map(v) ==
            IF v.panic THEN v
            ELSE Apply(find_pte_create_mut(v.fa, v.mem, v.pt, vpn),
                       LAMBDA c :
                           LET ok == ~c.panic
                                     /\ ~is_valid(c.mem[c.loc.ppn][c.loc.idx])
                           IN  [v EXCEPT
                                   !.fa = c.fa,
                                   !.pt = [v.pt EXCEPT !.frames = c.frames],
                                   !.mem = IF ok
                                           THEN [c.mem EXCEPT
                                                    ![c.loc.ppn][c.loc.idx] =
                                                        PageTableEntry_new(
                                                            ppn,
                                                            with_V(flags))]
                                           ELSE c.mem,
                                   !.panic = ~ok])
    IN  Apply(s, map)

\* PageTable::map
PtMap ==
    /\ mm_pc = "run"
    /\ \E vpn \in MapVpns, ppn \in MapPpns, flags \in MapFlags :
          LET s == page_table_map(
                       [fa |-> fa, mem |-> mem, pt |-> pt, panic |-> FALSE],
                       vpn, ppn, flags)
          IN  /\ fa' = s.fa
              /\ pt' = s.pt
              /\ mem' = s.mem
              /\ mm_pc' = IF s.panic THEN "panic" ELSE "run"
              /\ mapped' = IF s.panic THEN mapped
                           ELSE [mapped EXCEPT ![vpn] =
                                    [ppn |-> ppn, flags |-> flags]]
    /\ UNCHANGED <<trackers, fa_hist>>
    /\ UNCHANGED ms_vars
    /\ UNCHANGED task_vars

\* mutant: the whole third-level page is cleared
unmap_pte_page(m, loc) == [m EXCEPT ![loc.ppn] = ZeroPage]

\* *pte = PageTableEntry::empty()
unmap_pte(m, loc) == [m EXCEPT ![loc.ppn][loc.idx] = 0]

\* mutant: the entry is cleared without the assertion that it is valid
page_table_unmap_unchecked(s, vpn) ==
    LET loc == find_pte_mut(s.pt, s.mem, vpn)
    IN  IF s.panic THEN s
        ELSE IF loc = NoPte THEN [s EXCEPT !.panic = TRUE]
        ELSE [s EXCEPT !.mem = unmap_pte(s.mem, loc)]

\* PageTable::unmap on the state s = [fa, mem, pt, panic, ..]: find_pte_mut
\* must find the entry and the entry must be valid; it becomes
\* PageTableEntry::empty()
page_table_unmap(s, vpn) ==
    LET loc == find_pte_mut(s.pt, s.mem, vpn)
    IN  IF s.panic THEN s
        ELSE IF loc = NoPte THEN [s EXCEPT !.panic = TRUE]
        ELSE IF ~is_valid(s.mem[loc.ppn][loc.idx])
        THEN [s EXCEPT !.panic = TRUE]
        ELSE [s EXCEPT !.mem = unmap_pte(s.mem, loc)]

\* PageTable::unmap
PtUnmap ==
    /\ mm_pc = "run"
    /\ \E vpn \in MapVpns :
       \E s \in {page_table_unmap(
                     [fa |-> fa, mem |-> mem, pt |-> pt, panic |-> FALSE],
                     vpn)} :
          /\ mm_pc' = IF s.panic THEN "panic" ELSE "run"
          /\ mem' = s.mem
          /\ fa' = s.fa
          /\ pt' = s.pt
          /\ mapped' = IF s.panic THEN mapped
                       ELSE [mapped EXCEPT ![vpn] = NotMapped]
    /\ UNCHANGED <<trackers, fa_hist>>
    /\ UNCHANGED ms_vars
    /\ UNCHANGED task_vars

\* no page table exists
NoPageTable == [root_ppn |-> 0, frames |-> <<>>]

\* ------------------------------------------------------- memory_set.rs
\* a frame is PtEntries cells; in a data page a cell is one byte
PAGE_SIZE == PtEntries

USER_STACK_SIZE == PAGE_SIZE * 2

\* the virtual address space: VirtAddr::from(usize) keeps VA_WIDTH_SV39 bits
VaSize == NumVpn * PAGE_SIZE

VirtAddr_from(v) == v % VaSize

\* usize::MAX - PAGE_SIZE + 1 as a virtual address: the highest page
TRAMPOLINE_ADDR == VirtAddr_from(VaSize - PAGE_SIZE)

TRAP_CONTEXT_ADDR == TRAMPOLINE_ADDR - PAGE_SIZE

\* VirtAddr::floor, VirtAddr::ceil
VirtAddr_floor(va) == va \div PAGE_SIZE

VirtAddr_ceil(va) == ((va + PAGE_SIZE - 1) \div PAGE_SIZE) % NumVpn

\* VirtPageNum::get_addr0
VirtPageNum_get_addr0(vpn) == vpn * PAGE_SIZE

\* MapType
MapTypes == {"Identical", "Framed"}

\* MapPermission: R, W, X, U are the bits of the same name of PTEFlags
MapPermission_R == 2
MapPermission_W == 4
MapPermission_X == 8
MapPermission_U == 16

\* PTEFlags::from_bits(map_perm.bits()): the same bits
PTEFlags_from_bits(bits) == bits

\* MapArea::new: the pages floor(start_va) .. ceil(end_va) - 1, no frame yet
MapArea_new(start_va, end_va, map_type, map_perm) ==
    [start |-> VirtAddr_floor(start_va),
     end |-> VirtAddr_ceil(end_va),
     data_frames |-> <<>>,
     map_type |-> map_type,
     map_perm |-> map_perm]

\* mutant: a framed page is mapped to itself and no frame is recorded
map_one_identical(s, a, vpn) ==
    Apply(<<s, a>>,
          LAMBDA v :
              [s |-> page_table_map(v[1], vpn, vpn,
                                    PTEFlags_from_bits(v[2].map_perm)),
               a |-> v[2]])

\* MapArea::map_one on the state s and the area a: an Identical page maps
\* to the PPN of its own number, a Framed page to a new frame that is
\* recorded in data_frames before page_table.map
map_one(s, a, vpn) ==
    LET one(v, area) ==
            IF v.panic THEN [s |-> v, a |-> area]
            ELSE IF area.map_type = "Identical"
            THEN [s |-> page_table_map(v, vpn, vpn,
                                       PTEFlags_from_bits(area.map_perm)),
                  a |-> area]
            ELSE Apply(alloc(v.fa),
                       LAMBDA r :
                           IF r.ret = None
                           THEN [s |-> [v EXCEPT !.panic = TRUE], a |-> area]
                           ELSE [s |-> page_table_map(
                                          [v EXCEPT
                                              !.fa = r.fa,
                                              !.mem = FrameTracker_new(
                                                          v.mem, r.ret)],
                                          vpn, r.ret,
                                          PTEFlags_from_bits(area.map_perm)),
                                 a |-> [area EXCEPT !.data_frames =
                                                       (vpn :> r.ret) @@ @]])
    IN  Apply(<<s, a>>, LAMBDA v : one(v[1], v[2]))

\* MapArea::map: map_one for every page of the range in ascending order,
\* here the pages lo .. hi - 1 on r = [s, a], the lower half before the
\* upper half
RECURSIVE map_pages(_, _, _)
map_pages(r, lo, hi) ==
    IF lo >= hi THEN r
    ELSE IF hi = lo + 1 THEN map_one(r.s, r.a, lo)
    ELSE Apply(map_pages(r, lo, (lo + hi) \div 2),
               LAMBDA h : map_pages(h, (lo + hi) \div 2, hi))

MapArea_map(s, a, vpn) ==
    Apply(<<s, a>>,
          LAMBDA v : map_pages([s |-> v[1], a |-> v[2]], vpn, v[2].end))

\* the i-th chunk of bytes.chunks(PAGE_SIZE), i from 0
chunk(bytes, i) ==
    SubSeq(bytes, i * PAGE_SIZE + 1,
           IF (i + 1) * PAGE_SIZE < Len(bytes) THEN (i + 1) * PAGE_SIZE
           ELSE Len(bytes))

\* dst.copy_from_slice(src) with dst the first src.len() bytes of the frame
copy_from_slice(m, ppn, src) ==
    [m EXCEPT ![ppn] = [j \in PageIdx |-> IF j < Len(src) THEN src[j + 1]
                                          ELSE m[ppn][j]]]

\* MapArea::write_bytes from chunk i on: chunk i goes to the start of the
\* frame of the i-th page of the range
RECURSIVE write_bytes(_, _, _, _)
write_bytes(s, a, bytes, i) ==
    LET write(v) ==
            IF v.panic \/ i * PAGE_SIZE >= Len(bytes) THEN v
            ELSE LET vpn == a.start + i
                     pte == translate(v.pt, v.mem, vpn)
                 IN  IF a.map_type # "Framed" \/ vpn >= a.end \/ pte = None
                     THEN [v EXCEPT !.panic = TRUE]
                     ELSE write_bytes(
                              [v EXCEPT !.mem = copy_from_slice(
                                                    v.mem, pte_ppn(pte),
                                                    chunk(bytes, i))],
                              a, bytes, i + 1)
    IN  Apply(s, write)

\* Option<&[u8]>::None of push
NoBytes == [some |-> FALSE, data |-> <<>>]

SomeBytes(data) == [some |-> TRUE, data |-> data]

\* MemorySet::push: map the area, write the bytes if any, keep the area
push(s, a, bytes) ==
    LET mapped_area(v, r) ==
            Apply(IF bytes.some THEN write_bytes(r.s, r.a, bytes.data, 0)
                  ELSE r.s,
                  LAMBDA w : IF w.panic THEN w
                             ELSE [w EXCEPT !.areas = Append(@, r.a)])
    IN  Apply(<<s, a>>,
              LAMBDA v :
                  IF v[1].panic THEN v[1]
                  ELSE Apply(MapArea_map(v[1], v[2], v[2].start),
                             LAMBDA r : mapped_area(v[1], r)))

\* MemorySet::insert_framed_area
insert_framed_area(s, start_va, end_va, permission) ==
    push(s, MapArea_new(start_va, end_va, "Framed", permission), NoBytes)

\* linker symbols: the kernel image starts at page 0 and the trampoline
\* code is the first page of .text
stext == 0

strampoline == stext

\* mutant: the trampoline page is given to user mode
map_trampoline_user(s) ==
    page_table_map(s, VirtAddr_floor(VirtAddr_from(TRAMPOLINE_ADDR)),
                   strampoline \div PAGE_SIZE,
                   PTEFlags_from_bits(MapPermission_R + MapPermission_X
                                      + MapPermission_U))

\* MemorySet::map_trampoline
map_trampoline(s) ==
    page_table_map(s, VirtAddr_floor(VirtAddr_from(TRAMPOLINE_ADDR)),
                   strampoline \div PAGE_SIZE,
                   PTEFlags_from_bits(MapPermission_R + MapPermission_X))

\* MemorySet::default on the allocator a and the memory m: PageTable::new
\* takes the root frame, there is no area
MemorySet_default(a, m) ==
    Apply(alloc(a),
          LAMBDA r :
              IF r.ret = None
              THEN [fa |-> a, mem |-> m, pt |-> NoPageTable, areas |-> <<>>,
                    panic |-> TRUE]
              ELSE [fa |-> r.fa, mem |-> FrameTracker_new(m, r.ret),
                    pt |-> [root_ppn |-> r.ret, frames |-> <<r.ret>>],
                    areas |-> <<>>, panic |-> FALSE])

\* elf_segment_perm: U, and R, W, X as the program header has them
elf_segment_perm(ph_flags) ==
    MapPermission_U
    + (IF "R" \in ph_flags THEN MapPermission_R ELSE 0)
    + (IF "W" \in ph_flags THEN MapPermission_W ELSE 0)
    + (IF "X" \in ph_flags THEN MapPermission_X ELSE 0)

\* max_end_vpn = map_area.vpn_range.end
segment_end(max_end_vpn, end) == end

\* the for_each of from_elf over the LOAD program headers from the i-th on:
\* a framed area per header with the bytes of the file, max_end_vpn the end
\* of the area of the header handled last
RECURSIVE load_segments(_, _, _, _)
load_segments(s, phs, i, max_end_vpn) ==
    IF i > Len(phs) THEN [s |-> s, max_end_vpn |-> max_end_vpn]
    ELSE LET ph == phs[i]
             start_va == VirtAddr_from(ph.virtual_addr)
             end_va == VirtAddr_from(ph.virtual_addr + ph.mem_size)
             map_area == MapArea_new(start_va, end_va, "Framed",
                                     elf_segment_perm(ph.flags))
         IN  Apply(push(s, map_area, SomeBytes(ph.file)),
                   LAMBDA v :
                       load_segments(v, phs, i + 1,
                                     segment_end(max_end_vpn, map_area.end)))

\* MemorySet::from_elf on the allocator a and the memory m: trampoline,
\* the LOAD segments, a guard page, the user stack, the trap context page
from_elf(a, m, elf) ==
    LET stacks(l) ==
            LET user_stack_bottom ==
                    VirtPageNum_get_addr0(l.max_end_vpn) + PAGE_SIZE
                user_stack_top ==
                    VirtAddr_from(user_stack_bottom + USER_STACK_SIZE)
                s1 == push(l.s,
                           MapArea_new(user_stack_bottom, user_stack_top,
                                       "Framed",
                                       MapPermission_R + MapPermission_W
                                       + MapPermission_U),
                           NoBytes)
                s2 == push(s1,
                           MapArea_new(VirtAddr_from(TRAP_CONTEXT_ADDR),
                                       VirtAddr_from(TRAMPOLINE_ADDR),
                                       "Framed",
                                       MapPermission_R + MapPermission_W),
                           NoBytes)
            IN  [s |-> s2, user_sp |-> user_stack_top,
                 entry |-> elf.entry_point]
    IN  Apply(load_segments(map_trampoline(MemorySet_default(a, m)),
                            elf.phs, 1, 0),
              stacks)

\* the frames of the BTreeMap data_frames of an area in key order, the keys
\* from vpn on; every key is a page of the range
RECURSIVE data_frames_seq(_, _)
data_frames_seq(a, vpn) ==
    IF vpn >= a.end THEN <<>>
    ELSE (IF vpn \in DOMAIN a.data_frames THEN <<a.data_frames[vpn]>>
          ELSE <<>>)
         \o data_frames_seq(a, vpn + 1)

\* the frames of the areas from the i-th on, in the order of the Vec
RECURSIVE areas_frames(_, _)
areas_frames(as, i) ==
    IF i > Len(as) THEN <<>>
    ELSE data_frames_seq(as[i], as[i].start) \o areas_frames(as, i + 1)

\* Drop for FrameTracker, for each tracker of the sequence from the i-th on
RECURSIVE drop_trackers(_, _, _)
drop_trackers(d, ppns, i) ==
    Apply(d,
          LAMBDA v : IF v.panic \/ i > Len(ppns) THEN v
                     ELSE drop_trackers(dealloc(v.fa, ppns[i]), ppns, i + 1))

\* mutant: the data frames of the areas are not released
MemorySet_held_tables(p, as) == p.frames

\* the trackers a MemorySet owns, in the order its fields are dropped:
\* page_table.frames, then the data_frames of each area
MemorySet_held(p, as) == p.frames \o areas_frames(as, 1)

\* drop of a MemorySet with page table p and areas as, on the allocator a
MemorySet_drop(a, p, as) ==
    drop_trackers([panic |-> FALSE, fa |-> a], MemorySet_held(p, as), 1)

KERNEL_STACK_SIZE == PAGE_SIZE * 2

\* mutant: the stacks follow each other without a page between them
kernel_stack_pos_no_guard(app_id) ==
    LET top == TRAMPOLINE_ADDR - app_id * KERNEL_STACK_SIZE
    IN  [bottom |-> top - KERNEL_STACK_SIZE, top |-> top]

\* config::kernel_stack_pos
kernel_stack_pos(app_id) ==
    LET top == TRAMPOLINE_ADDR - app_id * (KERNEL_STACK_SIZE + PAGE_SIZE)
    IN  [bottom |-> top - KERNEL_STACK_SIZE, top |-> top]

\* the end of physical memory: below the kernel stacks of the tasks
\* (0x8800_0000 on the board, far below them)
MEMORY_END == TRAMPOLINE_ADDR - NumApp * (KERNEL_STACK_SIZE + PAGE_SIZE)

\* the addresses the linker gives for sections of the sizes sz, in pages:
\* .text, .rodata, .data, .bss one after the other from stext, each on a
\* page boundary, ekernel at the end of .bss
KernelLayout(sz) ==
    LET e1 == stext + sz[1] * PAGE_SIZE
        e2 == e1 + sz[2] * PAGE_SIZE
        e3 == e2 + sz[3] * PAGE_SIZE
        e4 == e3 + sz[4] * PAGE_SIZE
    IN  [stext |-> stext, etext |-> e1, srodata |-> e1, erodata |-> e2,
         sdata |-> e2, edata |-> e3, sbss_with_stack |-> e3, ebss |-> e4,
         ekernel |-> e4]

\* mutant: .rodata is mapped writable
kernel_sections_rodata_rw(L) ==
    <<[start |-> L.stext, end |-> L.etext,
       perm |-> MapPermission_R + MapPermission_X],
      [start |-> L.srodata, end |-> L.erodata,
       perm |-> MapPermission_R + MapPermission_W],
      [start |-> L.sdata, end |-> L.edata,
       perm |-> MapPermission_R + MapPermission_W],
      [start |-> L.sbss_with_stack, end |-> L.ebss,
       perm |-> MapPermission_R + MapPermission_W],
      [start |-> L.ekernel, end |-> MEMORY_END,
       perm |-> MapPermission_R + MapPermission_W]>>

\* the array sections of init_kernel_space: .text, .rodata, .data, .bss,
\* physical memory
kernel_sections(L) ==
    <<[start |-> L.stext, end |-> L.etext,
       perm |-> MapPermission_R + MapPermission_X],
      [start |-> L.srodata, end |-> L.erodata,
       perm |-> MapPermission_R],
      [start |-> L.sdata, end |-> L.edata,
       perm |-> MapPermission_R + MapPermission_W],
      [start |-> L.sbss_with_stack, end |-> L.ebss,
       perm |-> MapPermission_R + MapPermission_W],
      [start |-> L.ekernel, end |-> MEMORY_END,
       perm |-> MapPermission_R + MapPermission_W]>>

\* the loop of init_kernel_space over sections from the i-th on: every
\* section is pushed as an Identical area without bytes
RECURSIVE push_sections(_, _, _)
push_sections(s, sections, i) ==
    IF i > Len(sections) THEN s
    ELSE Apply(push(s, MapArea_new(VirtAddr_from(sections[i].start),
                                   VirtAddr_from(sections[i].end),
                                   "Identical", sections[i].perm),
                    NoBytes),
               LAMBDA v : push_sections(v, sections, i + 1))

\* MemorySet::init_kernel_space on the allocator a and the memory m
init_kernel_space(a, m, L) ==
    push_sections(map_trampoline(MemorySet_default(a, m)),
                  kernel_sections(L), 1)

\* ------------------------------------- page_table.rs: byte buffers
\* the satp CSR as a number: the mode above the ASID field above the PPN
\* field (4, 16 and 44 bits on the machine)
SatpPpn(bits) == bits % (2 ^ PpnWidth)

SatpAsid(bits) == (bits \div (2 ^ PpnWidth)) % (2 ^ AsidWidth)

SatpMode(bits) == bits \div (2 ^ (PpnWidth + AsidWidth))

\* register::satp::Mode::Sv39
Mode_Sv39 == 8

\* Satp::set_mode: the mode field is replaced, the other fields stay
Satp_set_mode(bits, mode) ==
    (bits % (2 ^ (PpnWidth + AsidWidth)))
        + mode * (2 ^ (PpnWidth + AsidWidth))

\* mutant: the PPN field is written only while it is empty
Satp_set_ppn_once(bits, ppn) ==
    IF SatpPpn(bits) # 0 THEN bits ELSE bits + (ppn % (2 ^ PpnWidth))

\* Satp::set_ppn: the PPN field is replaced, the other fields stay
Satp_set_ppn(bits, ppn) == bits - SatpPpn(bits) + (ppn % (2 ^ PpnWidth))

\* MemorySet::token with reg the value satp::read() gives: mode Sv39 and the
\* root PPN are set in it
MemorySet_token(p, reg) ==
    Satp_set_ppn(Satp_set_mode(reg, Mode_Sv39), p.root_ppn)

\* PageTable::from_satp: the PPN field of satp, no frame owned
PageTable_from_satp(token) ==
    [root_ppn |-> token % (2 ^ PpnWidth), frames |-> <<>>]

\* the address of the first byte of a page, as translated_byte_buffer
\* takes it from the page number
page_start_of(vpn) == vpn * PAGE_SIZE

\* let va = VirtAddr::from(start_addr)
tbb_va(t) == VirtAddr_from(t.start_addr)

\* one round of the while loop of translated_byte_buffer on the locals t
\* and the memory m: the slice [slice_start, slice_end) of the frame of the
\* page is pushed and the cursor moves to page_start + slice_end
tbb_round(t, m) ==
    LET page_table == PageTable_from_satp(t.satp)
        vpn == VirtAddr_floor(tbb_va(t))
        pte == translate(page_table, m, vpn)
        page_start == page_start_of(vpn)
        page_end == page_start + PAGE_SIZE
        slice_start == IF t.current > page_start THEN t.current - page_start
                       ELSE 0
        slice_end == IF t.end_addr < page_end THEN t.end_addr - page_start
                     ELSE PAGE_SIZE
    IN  IF pte = None \/ slice_start > slice_end
        THEN [t EXCEPT !.pc = "panic"]
        ELSE IF Len(t.res) = MaxSlices
        THEN [t EXCEPT !.pc = "oom"]
        ELSE [t EXCEPT !.res = Append(@, [ppn |-> pte_ppn(pte),
                                          lo |-> slice_start,
                                          hi |-> slice_end]),
                       !.current = page_start + slice_end]

\* no memory set exists and no call is under way
MsIdle ==
    /\ areas = <<>>
    /\ ms = [pc |-> "idle"]
    /\ tbb = [pc |-> "idle"]
    /\ uw = [pc |-> "idle"]

\* before mm::init: the allocator is empty
MmIdle ==
    /\ fa = StackFrameAllocator_new
    /\ mem = [p \in PPNs |-> ZeroPage]
    /\ trackers = [p \in PPNs |-> 0]
    /\ fa_hist = <<>>
    /\ mm_pc = "run"
    /\ pt = NoPageTable
    /\ mapped = <<>>
    /\ MsIdle

\* ------------------------------------------------------------------ Spec
InitCtx == [sepc |-> 0, x10 |-> 0, x11 |-> 0, x12 |-> 0, x17 |-> 0]

InitRest ==
    /\ task_ctx = [t \in Tasks |-> "trap_return"]
    /\ trap_ctx = [t \in Tasks |-> InitCtx]
    /\ scause = "none"
    /\ time = 0
    /\ timer = 0
    /\ console = <<>>
    /\ klog = <<>>
    /\ waited = [t \in Tasks |-> 0]
    /\ run_seq = <<>>
    /\ fn_res = None
    /\ satp = KernelSatp
    /\ stvec = "reset"
    /\ cells = NoBorrow

\* TaskControlBlock::new for every app, current_task: 0
InitTasks ==
    /\ task_status = [t \in Tasks |-> "Ready"]
    /\ current_task = 0
    /\ pc = "boot"
    /\ InitRest

Init ==
    /\ InitTasks
    /\ MmIdle

Next ==
    \/ RunFirstTask
    \/ Tick
    \/ UserEcall
    \/ UserException
    \/ TimerInterrupt
    \/ HandleTimer
    \/ HandleWrite
    \/ HandleYield
    \/ HandleExit
    \/ HandleUnknownSyscall
    \/ HandleFault
    \/ ResumeTask

Spec == Init /\ [][Next]_vars

\* tasks that only yield or exit, no timer
NextYield ==
    \/ RunFirstTask
    \/ YieldEcall
    \/ HandleYield
    \/ HandleExit
    \/ ResumeRecorded

SpecYield == Init /\ [][NextYield]_vars

\* find_next_task on every task table and every current
InitFind ==
    /\ task_status \in [Tasks -> TaskStatus]
    /\ current_task \in Tasks
    /\ pc = "find"
    /\ InitRest
    /\ MmIdle

NextFind == FindNext

SpecFind == InitFind /\ [][NextFind]_vars

\* init_frame_allocator: init(ekernel.ceil(), MEMORY_END.floor()); the
\* frames hold whatever was in RAM
InitFrame ==
    /\ InitTasks
    /\ fa = StackFrameAllocator_init(StackFrameAllocator_new, FaStart, FaEnd)
    /\ mem \in {[p \in PPNs |-> ZeroPage], [p \in PPNs |-> DirtyPage]}
    /\ trackers = [p \in PPNs |-> 0]
    /\ fa_hist = <<>>
    /\ mm_pc = "run"
    /\ pt = NoPageTable
    /\ mapped = <<>>
    /\ MsIdle

\* frames are allocated, written and released through their trackers
NextFrame ==
    \/ FrameAlloc
    \/ FrameDrop
    \/ FrameWrite

SpecFrame == InitFrame /\ [][NextFrame]_vars

\* frame_dealloc is called with arbitrary PPNs
NextFrameRaw ==
    \/ FrameAlloc
    \/ FrameDealloc

SpecFrameRaw == InitFrame /\ [][NextFrameRaw]_vars

\* PageTable::new on the initialised allocator: the root frame is allocated
\* and zeroed; all other frames hold what their last owner left
InitPT ==
    /\ InitTasks
    /\ LET a == StackFrameAllocator_init(StackFrameAllocator_new,
                                         FaStart, FaEnd)
           r == alloc(a)
       IN  /\ fa = r.fa
           /\ mem = FrameTracker_new([p \in PPNs |-> DirtyPage], r.ret)
           /\ pt = [root_ppn |-> r.ret, frames |-> <<r.ret>>]
    /\ trackers = [p \in PPNs |-> 0]
    /\ fa_hist = <<>>
    /\ mm_pc = "run"
    /\ mapped = [v \in VPNs |-> NotMapped]
    /\ MsIdle

NextPT ==
    \/ PtMap
    \/ PtUnmap

SpecPT == InitPT /\ [][NextPT]_vars

\* ---- memory sets: from_elf, default and push, drop
MsEnd == FaStart + MsFrames

MsPPNs == 0 .. MsEnd - 1

\* LOAD program headers: page-aligned and not, in one page and in two, with
\* and without bytes after the file bytes
ElfVaddrs == {0, 1, PAGE_SIZE, 4 * PAGE_SIZE}

ElfFiles == {<<5>>, [i \in 1 .. PAGE_SIZE + 1 |-> 5 + i]}

ElfFlags == {{"R", "X"}, {"R", "W"}}

ProgramHeaders ==
    {[virtual_addr |-> v, file |-> f, mem_size |-> Len(f) + e, flags |-> fl] :
        v \in ElfVaddrs, f \in ElfFiles, e \in {0, 2}, fl \in ElfFlags}

Elfs ==
    {[phs |-> <<ph>>, entry_point |-> ph.virtual_addr] :
        ph \in ProgramHeaders}
    \cup {[phs |-> <<ph1, ph2>>, entry_point |-> ph1.virtual_addr] :
            ph1 \in ProgramHeaders, ph2 \in ProgramHeaders}

NoElf == [phs |-> <<>>, entry_point |-> 0]

\* the allocator after init, after two frames were taken and given back, or
\* with one of the two still in use
MsAllocators ==
    LET a == StackFrameAllocator_init(StackFrameAllocator_new, FaStart, MsEnd)
    IN  {a,
         [a EXCEPT !.current = FaStart + 2,
                   !.recycled = <<FaStart + 1, FaStart>>],
         [a EXCEPT !.current = FaStart + 2, !.recycled = <<FaStart>>]}

InitMs ==
    /\ InitTasks
    /\ fa \in MsAllocators
    /\ mem \in {[p \in MsPPNs |-> ZeroPage], [p \in MsPPNs |-> DirtyPage]}
    /\ trackers = [p \in MsPPNs |-> 0]
    /\ fa_hist = <<>>
    /\ mm_pc = "run"
    /\ pt = NoPageTable
    /\ mapped = <<>>
    /\ areas = <<>>
    /\ ms = [pc |-> "none", fa0 |-> fa, elf |-> NoElf,
             user_sp |-> 0, entry |-> 0, held |-> <<>>]
    /\ tbb = [pc |-> "idle"]
    /\ uw = [pc |-> "idle"]

\* the variables a memory-set action leaves alone
ms_rest == <<trackers, fa_hist, mm_pc, mapped, tbb, uw, task_vars>>

\* let (memory_set, user_sp, entry) = MemorySet::from_elf(elf_data)
MsFromElf ==
    /\ ms.pc = "none"
    /\ \E elf \in Elfs :
          \E r \in {from_elf(fa, mem, elf)} :
              /\ fa' = r.s.fa
              /\ mem' = r.s.mem
              /\ pt' = r.s.pt
              /\ areas' = r.s.areas
              /\ ms' = [pc |-> IF r.s.panic THEN "panic" ELSE "user",
                        fa0 |-> fa, elf |-> elf,
                        user_sp |-> r.user_sp, entry |-> r.entry,
                        held |-> <<>>]
    /\ UNCHANGED ms_rest

\* MemorySet::default()
MsDefault ==
    /\ ms.pc = "none"
    /\ \E s \in {MemorySet_default(fa, mem)} :
           /\ fa' = s.fa
           /\ mem' = s.mem
           /\ pt' = s.pt
           /\ areas' = s.areas
           /\ ms' = [pc |-> IF s.panic THEN "panic" ELSE "custom",
                     fa0 |-> fa, elf |-> NoElf,
                     user_sp |-> 0, entry |-> 0, held |-> <<>>]
    /\ UNCHANGED ms_rest

\* memory_set.push(MapArea::new(start_va, end_va, map_type, map_perm), bytes)
MsPush ==
    /\ ms.pc = "custom"
    /\ Len(areas) < MaxAreas
    /\ \E start_va \in {0, PAGE_SIZE + 1, 5 * PAGE_SIZE},
          size \in {1, PAGE_SIZE + 1},
          map_type \in MapTypes,
          map_perm \in {MapPermission_R,
                        MapPermission_R + MapPermission_W + MapPermission_U},
          bytes \in {NoBytes, SomeBytes(<<5>>)} :
          \E s \in {push([fa |-> fa, mem |-> mem, pt |-> pt,
                          areas |-> areas, panic |-> FALSE],
                         MapArea_new(start_va, start_va + size, map_type,
                                     map_perm),
                         bytes)} :
              /\ fa' = s.fa
              /\ mem' = s.mem
              /\ pt' = s.pt
              /\ areas' = s.areas
              /\ ms' = [ms EXCEPT !.pc = IF s.panic THEN "panic" ELSE @]
    /\ UNCHANGED ms_rest

\* the memory set goes out of scope
MsDrop ==
    /\ ms.pc \in {"user", "custom"}
    /\ \E d \in {MemorySet_drop(fa, pt, areas)} :
           /\ fa' = d.fa
           /\ ms' = [ms EXCEPT !.pc = IF d.panic THEN "drop_panic"
                                      ELSE "dropped",
                               !.held = MemorySet_held(pt, areas)]
    /\ pt' = NoPageTable
    /\ areas' = <<>>
    /\ UNCHANGED mem
    /\ UNCHANGED ms_rest

NextMs ==
    \/ MsFromElf
    \/ MsDefault
    \/ MsPush
    \/ MsDrop

SpecMs == InitMs /\ [][NextMs]_vars

\* ---- the kernel address space and the address spaces of the tasks
\* sizes of .text, .rodata, .data, .bss in pages
KernelLayouts == {KernelLayout(sz) : sz \in [1 .. 4 -> {1, 2}]}

\* physical pages: the kernel image and the frames up to MEMORY_END
KsPPNs == 0 .. (MEMORY_END \div PAGE_SIZE) - 1

\* the applications linked into the kernel
KsElfs ==
    {[phs |-> <<[virtual_addr |-> 0, file |-> <<5>>, mem_size |-> 1,
                 flags |-> {"R", "X"}]>>,
      entry_point |-> 0],
     [phs |-> <<[virtual_addr |-> 0, file |-> <<5>>, mem_size |-> 1,
                 flags |-> {"R", "X"}],
                [virtual_addr |-> PAGE_SIZE, file |-> <<6>>,
                 mem_size |-> 2, flags |-> {"R", "W"}]>>,
      entry_point |-> 0],
     [phs |-> <<[virtual_addr |-> PAGE_SIZE, file |-> <<7>>,
                 mem_size |-> PAGE_SIZE + 1, flags |-> {"R", "W", "X"}]>>,
      entry_point |-> PAGE_SIZE]}

\* after mm::init's init_frame_allocator: the frames are the pages from
\* ekernel to MEMORY_END
InitKernel ==
    /\ InitTasks
    /\ \E L \in KernelLayouts :
          /\ fa = StackFrameAllocator_init(StackFrameAllocator_new,
                                           (L.ekernel + PAGE_SIZE - 1)
                                               \div PAGE_SIZE,
                                           MEMORY_END \div PAGE_SIZE)
          /\ ms = [pc |-> "boot", layout |-> L, user |-> <<>>, satp |-> 0]
    /\ mem = [p \in KsPPNs |-> DirtyPage]
    /\ trackers = [p \in KsPPNs |-> 0]
    /\ fa_hist = <<>>
    /\ mm_pc = "run"
    /\ pt = NoPageTable
    /\ mapped = <<>>
    /\ areas = <<>>
    /\ tbb = [pc |-> "idle"]
    /\ uw = [pc |-> "idle"]

\* mm::init's activate_kernel: KERNEL_SPACE is built at its first use and
\* its token is written to satp
KsInit ==
    /\ ms.pc = "boot"
    /\ \E s \in {init_kernel_space(fa, mem, ms.layout)} :
           /\ fa' = s.fa
           /\ mem' = s.mem
           /\ pt' = s.pt
           /\ areas' = s.areas
           /\ ms' = [ms EXCEPT
                        !.pc = IF s.panic THEN "panic" ELSE "kernel",
                        !.satp = IF s.panic THEN @
                                 ELSE MemorySet_token(s.pt, @)]
    /\ UNCHANGED ms_rest

\* TaskControlBlock::new(app_id, elf_data) for the next application: the
\* kernel stack is added to the kernel space, the address space of the
\* task is built by from_elf, the frame of its trap context is looked up
TcbNew ==
    /\ ms.pc = "kernel"
    /\ Len(ms.user) < NumApp
    /\ \E elf \in KsElfs :
          \E k \in {insert_framed_area(
                       [fa |-> fa, mem |-> mem, pt |-> pt, areas |-> areas,
                        panic |-> FALSE],
                       VirtAddr_from(kernel_stack_pos(Len(ms.user)).bottom),
                       VirtAddr_from(kernel_stack_pos(Len(ms.user)).top),
                       MapPermission_R + MapPermission_W)} :
          \E r \in {from_elf(k.fa, k.mem, elf)} :
          LET u == r.s
              ok == ~k.panic /\ ~u.panic
          IN  /\ fa' = IF k.panic THEN k.fa ELSE u.fa
              /\ mem' = IF k.panic THEN k.mem ELSE u.mem
              /\ pt' = k.pt
              /\ areas' = k.areas
              /\ ms' = IF ok
                       THEN [ms EXCEPT !.user = Append(@,
                                [pt |-> u.pt, areas |-> u.areas, elf |-> elf,
                                 user_sp |-> r.user_sp, entry |-> r.entry,
                                 kernel_satp |->
                                     MemorySet_token(k.pt, ms.satp),
                                 trap_ctx_ppn |->
                                     pte_ppn(translate(u.pt, u.mem,
                                         VirtAddr_floor(VirtAddr_from(
                                             TRAP_CONTEXT_ADDR))))])]
                       ELSE [ms EXCEPT !.pc = "panic"]
    /\ UNCHANGED ms_rest

NextKernel ==
    \/ KsInit
    \/ TcbNew

SpecKernel == InitKernel /\ [][NextKernel]_vars

\* ---- translated_byte_buffer on the address space of a task
\* the application: one LOAD segment of two pages from address 0, every
\* byte different
TbbElf ==
    [phs |-> <<[virtual_addr |-> 0,
                file |-> [i \in 1 .. 2 * PAGE_SIZE |-> 10 + i],
                mem_size |-> 2 * PAGE_SIZE, flags |-> {"R", "W"}]>>,
     entry_point |-> 0]

\* buffers: from the start, the middle and the last byte of page 0, from
\* page 1, from the guard page, which has no third-level page, and from a
\* page that is not mapped and shares its third-level page with page 0
TbbPtrs ==
    {0, 1, PAGE_SIZE - 1, PAGE_SIZE, 2 * PAGE_SIZE,
     PtEntries * PtEntries * PAGE_SIZE}

\* what satp holds when the token is made: nothing yet, or the token of
\* another address space
TbbSatps == {0, MemorySet_token([root_ppn |-> FaStart], 0)}

TbbLens == {0, 1, PAGE_SIZE - 1, PAGE_SIZE, PAGE_SIZE + 1, 2 * PAGE_SIZE}

InitTbb ==
    /\ InitTasks
    /\ \E m \in {[p \in MsPPNs |-> ZeroPage], [p \in MsPPNs |-> DirtyPage]} :
          \E r \in {from_elf(StackFrameAllocator_init(
                                 StackFrameAllocator_new, FaStart, MsEnd),
                             m, TbbElf)} :
              /\ fa = r.s.fa
              /\ mem = r.s.mem
              /\ pt = r.s.pt
              /\ areas = r.s.areas
              /\ ms = [pc |-> "user", fa0 |-> fa, elf |-> TbbElf,
                       user_sp |-> r.user_sp, entry |-> r.entry,
                       held |-> <<>>]
    /\ trackers = [p \in MsPPNs |-> 0]
    /\ fa_hist = <<>>
    /\ mm_pc = "run"
    /\ mapped = <<>>
    /\ tbb = [pc |-> "idle"]
    /\ uw = [pc |-> "idle"]

tbb_rest == <<fa, mem, trackers, fa_hist, mm_pc, pt, mapped, areas, ms, uw,
              task_vars>>

\* translated_byte_buffer(satp, ptr, len) is entered
TbbCall ==
    /\ tbb.pc = "idle"
    /\ \E ptr \in TbbPtrs, len \in TbbLens, reg \in TbbSatps :
          tbb' = [pc |-> "loop", satp |-> MemorySet_token(pt, reg),
                  start_addr |-> ptr, end_addr |-> ptr + len,
                  current |-> ptr, res |-> <<>>]
    /\ UNCHANGED tbb_rest

\* while current < end_addr { .. }
TbbStep ==
    /\ tbb.pc = "loop"
    /\ tbb.current < tbb.end_addr
    /\ tbb' = tbb_round(tbb, mem)
    /\ UNCHANGED tbb_rest

\* the loop is left and res is returned
TbbReturn ==
    /\ tbb.pc = "loop"
    /\ ~(tbb.current < tbb.end_addr)
    /\ tbb' = [tbb EXCEPT !.pc = "done"]
    /\ UNCHANGED tbb_rest

NextTbb ==
    \/ TbbCall
    \/ TbbStep
    \/ TbbReturn

SpecTbb == InitTbb /\ [][NextTbb]_vars

\* ------------------------------------------- user/src/lib.rs: wait
\* PIDs of children
Pids == 1 .. NumApp

\* what sys_waitpid returns: -2 while no child asked for has exited, -1
\* when there is no such child, else the PID of the child
WaitAnswers == {-2, -1} \cup Pids

\* a counter that stops at MaxWaits
Count(n) == IF n < MaxWaits THEN n + 1 ELSE n

\* mutant: every negative answer is taken as "not yet"
wait_match_negative(answer) == IF answer < 0 THEN "yield" ELSE "return"

\* match sys_waitpid(..) { -2 => yield_(), exit_pid => return exit_pid }
wait_match(answer) == IF answer = -2 THEN "yield" ELSE "return"

InitWait ==
    /\ InitTasks
    /\ MmIdle

wait_rest ==
    <<task_status, task_ctx, current_task, trap_ctx, pc, scause, time,
      timer, console, klog, waited, run_seq, fn_res, satp, stvec, cells, fa,
      mem, trackers, fa_hist, mm_pc, pt, mapped, areas, ms, tbb>>

\* wait(exit_code) is called: the loop asks for any child, pid -1
UwWait ==
    /\ uw.pc = "idle"
    /\ uw' = [pc |-> "syscall", fn |-> "wait", pid |-> -1, asked |-> 0,
              answer |-> 0, minus2 |-> 0, others |-> 0, yields |-> 0,
              ret |-> 0]
    /\ UNCHANGED wait_rest

\* waitpid(pid, exit_code) is called: the loop asks for pid as isize
UwWaitpid ==
    /\ uw.pc = "idle"
    /\ \E pid \in Pids :
          uw' = [pc |-> "syscall", fn |-> "waitpid", pid |-> pid,
                 asked |-> 0, answer |-> 0, minus2 |-> 0, others |-> 0,
                 yields |-> 0, ret |-> 0]
    /\ UNCHANGED wait_rest

\* sys_waitpid(pid, exit_code) and the answer of the kernel
UwSyscall ==
    /\ uw.pc = "syscall"
    /\ \E answer \in WaitAnswers :
          uw' = [uw EXCEPT !.pc = "match", !.asked = uw.pid,
                           !.answer = answer,
                           !.minus2 = IF answer = -2 THEN Count(@) ELSE @,
                           !.others = IF answer # -2 THEN Count(@) ELSE @]
    /\ UNCHANGED wait_rest

\* the match on the answer: return it, or go on to yield_()
UwMatch ==
    /\ uw.pc = "match"
    /\ uw' = IF wait_match(uw.answer) = "yield"
             THEN [uw EXCEPT !.pc = "yield"]
             ELSE [uw EXCEPT !.pc = "return", !.ret = uw.answer]
    /\ UNCHANGED wait_rest

\* yield_() returns and the loop starts over
UwYield ==
    /\ uw.pc = "yield"
    /\ uw' = [uw EXCEPT !.pc = "syscall", !.yields = Count(@)]
    /\ UNCHANGED wait_rest

NextWait ==
    \/ UwWait
    \/ UwWaitpid
    \/ UwSyscall
    \/ UwMatch
    \/ UwYield

SpecWait == InitWait /\ [][NextWait]_vars

\* the task goes on after sys_waitpid has returned
SpecWaitFair == SpecWait /\ WF_vars(UwMatch)

\* ================================================================ claims

\* cyclic distance from just past c: 0 for c+1, ..., NumApp-1 for c itself
Dist(c, t) == (t - c - 1 + NumApp) % NumApp

\* C1: find_next returns the first Ready task in the order (current+1) mod N,
\* ..., (current+N) mod N = current, returns none exactly when no task is
\* Ready (so the task it was called for is re-selected only when no other
\* task is Ready), and changes neither a task status nor current_task.
C1_FindNextFirstReady ==
    /\ [](pc = "found" =>
            /\ (fn_res = None) <=> (\A t \in Tasks : task_status[t] # "Ready")
            /\ fn_res # None =>
                 /\ fn_res \in Tasks
                 /\ task_status[fn_res] = "Ready"
                 /\ \A t \in Tasks :
                        Dist(current_task, t) < Dist(current_task, fn_res)
                            => task_status[t] # "Ready"
            /\ fn_res = current_task =>
                 \A t \in Tasks \ {current_task} : task_status[t] # "Ready")
    /\ [][pc = "find" => /\ task_status' = task_status
                         /\ current_task' = current_task]_vars

C1_Witness ==
    /\ pc = "found"
    /\ task_status[current_task] = "Ready"
    /\ task_status[(current_task + 1) % NumApp] = "Exited"
    /\ task_status[(current_task + 2) % NumApp] = "Ready"
    /\ fn_res = (current_task + 2) % NumApp
    /\ fn_res # current_task

\* C2: when every task only yields or exits, the tasks enter U-mode in the
\* order 0, 1, ..., N-1, 0, 1, ... as long as none has exited, and afterwards
\* each entry is the first task that has not exited in cyclic id order after
\* the previous one.
C2_RoundRobinSequence ==
    \A i \in 1 .. Len(run_seq) :
        /\ i = 1 => run_seq[i].id = 0
        /\ run_seq[i].dead = {} => run_seq[i].id = (i - 1) % NumApp
        /\ i > 1 =>
             LET c == run_seq[i - 1].id
                 n == run_seq[i].id
             IN  /\ n \notin run_seq[i].dead
                 /\ \A t \in Tasks \ run_seq[i].dead : Dist(c, n) <= Dist(c, t)

C2_Witness ==
    /\ Len(run_seq) >= NumApp + 3
    /\ run_seq[NumApp + 1] = [id |-> 0, dead |-> {}]
    /\ Last(run_seq).dead # {}
    /\ Last(run_seq).id # (Len(run_seq) - 1) % NumApp

\* C3: a Ready task is passed over by fewer than N-1 run_next decisions
\* made after it became Ready, so it is the one selected by the (N-1)-th such
\* decision at the latest.
C3_NoStarvation ==
    \A t \in Tasks : task_status[t] = "Ready" => waited[t] <= NumApp - 2

C3_Witness ==
    \E t \in Tasks :
        /\ task_status[t] = "Ready"
        /\ task_ctx[t] # "trap_return"
        /\ waited[t] = NumApp - 2
        /\ pc = "user"

\* C4: an Exited task stays Exited, is never the result of find_next, is
\* never the task that runs, and a task that called exit is never resumed.
C4_ExitedForever ==
    /\ [][\A t \in Tasks : task_status[t] = "Exited"
                             => task_status'[t] = "Exited"]_vars
    /\ [](pc \in {"user", "trap_handler", "switched"}
            => /\ task_status[current_task] # "Exited"
               /\ task_ctx[current_task] # "sys_exit")
    /\ [](LET n == find_next_task(task_status, current_task)
          IN  n # None => task_status[n] # "Exited")

C4_Witness ==
    \E y \in Tasks :
        /\ pc = "switched"
        /\ klog = <<"sepc", "sys_yield", "suspend_current_and_run_next">>
        /\ task_ctx[y] = "sys_yield"
        /\ task_status[y] = "Ready"
        /\ task_status[(y + 1) % NumApp] = "Exited"
        /\ current_task = (y + 2) % NumApp
        /\ current_task # y

\* C5: run_next shuts down (cleanly) exactly when no task is Ready at its
\* decision: the system is shut down iff every task is Exited, which only
\* an exit brings about, never a yield or a timer preemption.
C5_ShutdownIffNoReady ==
    /\ [](pc = "shutdown" <=> \A t \in Tasks : task_status[t] = "Exited")
    /\ [](pc = "shutdown" => Last(klog) = "exit_current_and_run_next")
    /\ [][pc = "trap_handler" /\ pc' \in {"switched", "shutdown"} =>
            LET suspended == Last(klog') = "suspend_current_and_run_next"
                ready == {t \in Tasks \ {current_task} :
                              task_status[t] = "Ready"}
                         \cup (IF suspended THEN {current_task} ELSE {})
            IN  pc' = "shutdown" <=> ready = {}]_vars

C5_Witness ==
    /\ pc = "shutdown"
    /\ klog[2] = "sys_exit"
    /\ task_ctx[current_task] = "sys_yield"
    /\ waited = [t \in Tasks |-> 0]

\* C6: a timer interrupt taken while another task is Ready arms the deadline
\* now + CLOCK_FREQ/TICKS_PER_SEC before rescheduling, makes the running
\* task Ready and switches to a different task, which becomes Running.
C6_TimerPreempts ==
    [][(/\ pc = "trap_handler"
        /\ scause = "SupervisorTimer"
        /\ \E t \in Tasks \ {current_task} : task_status[t] = "Ready")
       => /\ timer' = time + CLOCK_FREQ \div TICKS_PER_SEC
          /\ klog' = <<"set_next_trigger", "suspend_current_and_run_next">>
          /\ task_status'[current_task] = "Ready"
          /\ current_task' # current_task
          /\ task_status'[current_task'] = "Running"
          /\ pc' = "switched"]_vars

C6_Witness ==
    \E t \in Tasks \ {current_task} :
        /\ pc = "switched"
        /\ scause = "SupervisorTimer"
        /\ task_ctx[t] = "timer"
        /\ task_status[t] = "Ready"
        /\ trap_ctx[t] = InitCtx
        /\ time > CLOCK_FREQ \div TICKS_PER_SEC
        /\ timer = time + CLOCK_FREQ \div TICKS_PER_SEC

\* C7: a store/load access fault, store/load page fault or illegal
\* instruction of the running task never ends in a kernel panic: only the
\* task is terminated.
C7_FaultKillsOnlyTask ==
    scause \in Faults /\ pc # "trap_handler"
        => /\ pc # "panic"
           /\ \E t \in Tasks : task_status[t] = "Exited"

\* C8: a write with fd other than 1 is not kernel-fatal: it returns or ends
\* the calling task, the kernel does not panic.
C8_BadFdNotKernelFatal ==
    LET ctx == trap_ctx[current_task]
    IN  ~(/\ pc = "panic"
          /\ scause = "UserEnvCall"
          /\ ctx.x17 = SYSCALL_WRITE
          /\ ctx.x10 # FD_STDOUT)

\* C9: a write with fd = 1 prints exactly the len bytes at [buf, buf+len) of
\* the calling task's address space and returns len.
C9_WritePrintsUserBytes ==
    LET ctx == trap_ctx[current_task]
        done == klog = <<"sepc", "sys_write", "x10", "trap_return">>
        failed == klog = <<"sepc", "sys_write", "panic">> /\ ctx.x10 = FD_STDOUT
    IN  done \/ failed =>
            /\ done
            /\ console = [i \in 1 .. ctx.x12 |->
                              UserByte(current_task, ctx.x11 + i - 1)]
            /\ ctx.x10 = ctx.x12

\* C10: the UserEnvCall arm advances the caller's saved sepc by 4, calls the
\* function selected by saved x17 on (x10, x11, x12), stores the value it
\* returns in the caller's saved x10 and changes no other saved register and
\* no other task's trap context; a value returned after a switch (yield's 0)
\* is stored in the resumed caller's x10 only.
C10_EcallDispatch ==
    /\ [][pc = "trap_handler" /\ scause = "UserEnvCall" =>
            LET old == trap_ctx[current_task]
                new == trap_ctx'[current_task]
            IN  /\ new.sepc = old.sepc + 4
                /\ new.x11 = old.x11 /\ new.x12 = old.x12 /\ new.x17 = old.x17
                /\ \A t \in Tasks \ {current_task} : trap_ctx'[t] = trap_ctx[t]
                /\ old.x17 = SYSCALL_WRITE => klog'[2] = "sys_write"
                /\ old.x17 = SYSCALL_EXIT => klog'[2] = "sys_exit"
                /\ old.x17 = SYSCALL_YIELD => klog'[2] = "sys_yield"
                /\ IF pc' = "user"
                   THEN /\ old.x17 = SYSCALL_WRITE /\ old.x10 = FD_STDOUT
                        /\ Len(console') = old.x12
                        /\ new.x10 = old.x12
                   ELSE new.x10 = old.x10]_vars
    /\ [][pc = "switched" =>
            \A t \in Tasks :
                trap_ctx'[t] = IF t = current_task /\ task_ctx[t] = "sys_yield"
                               THEN [trap_ctx[t] EXCEPT !.x10 = 0]
                               ELSE trap_ctx[t]]_vars

C10_Witness ==
    /\ pc = "user"
    /\ klog = <<"sepc", "sys_write", "x10", "trap_return">>
    /\ trap_ctx[current_task] =
           [sepc |-> 4, x10 |-> 2, x11 |-> 2, x12 |-> 2, x17 |-> SYSCALL_WRITE]
    /\ \E t \in Tasks \ {current_task} :
           trap_ctx[t] = [sepc |-> 4, x10 |-> 0, x11 |-> 0, x12 |-> 0,
                          x17 |-> SYSCALL_YIELD]

\* t waits inside sys_yield: switched out by it, or switched back in and not
\* yet returned from it
SuspendedInYield(t) ==
    /\ task_ctx[t] = "sys_yield"
    /\ \/ task_status[t] = "Ready"
       \/ t = current_task /\ pc = "switched"

\* C11: a task that yields waits with sepc at the instruction after its ecall
\* and a0 not yet written; nothing that other tasks do while it waits (run,
\* yield, exit, preemption) changes its trap context; when it is switched
\* back in, 0 is stored in a0 of its own trap context, no other trap context
\* changes, and it enters U-mode in its own address space.
C11_YieldReturnsZero ==
    /\ [][IsSyscall("sys_yield") =>
            /\ trap_ctx' = [trap_ctx EXCEPT ![current_task].sepc = @ + 4]
            /\ \A t \in Tasks : t = current_task => SuspendedInYield(t)']_vars
    /\ [][\A t \in Tasks :
            SuspendedInYield(t) /\ ~(pc = "switched" /\ t = current_task)
                => trap_ctx'[t] = trap_ctx[t]]_vars
    /\ [][pc = "switched" /\ task_ctx[current_task] = "sys_yield" =>
            /\ pc' = "user"
            /\ current_task' = current_task
            /\ satp' = task_satp(current_task)
            /\ trap_ctx' = [trap_ctx EXCEPT ![current_task].x10 = 0]
            /\ trap_ctx'[current_task].x17 = SYSCALL_YIELD]_vars

\* a task is back in U-mode from a yield, after another task was preempted
\* and a third one exited
C11_Witness ==
    /\ pc = "user"
    /\ task_ctx[current_task] = "sys_yield"
    /\ klog = <<"set_next_trigger", "suspend_current_and_run_next">>
    /\ trap_ctx[current_task].sepc = 4
    /\ trap_ctx[current_task].x10 = 0
    /\ trap_ctx[current_task].x17 = SYSCALL_YIELD
    /\ \E t \in Tasks : task_status[t] = "Exited"
    /\ \E t \in Tasks : task_status[t] = "Ready" /\ task_ctx[t] = "timer"

\* C12: in U-mode satp holds the token of tasks[current_task], that task is
\* the only Running one, and its TrapContext page is the one __restore reads
\* and the next __alltraps writes; in the kernel satp holds the kernel token.
C12_UserSatpIsCurrent ==
    /\ pc = "user" =>
         /\ satp = task_satp(current_task)
         /\ \A t \in Tasks : task_status[t] = "Running" <=> t = current_task
    /\ pc # "user" => satp = KernelSatp

\* a task other than task 0 runs in U-mode after a switch, another task
\* having exited
C12_Witness ==
    /\ pc = "user"
    /\ current_task # 0
    /\ satp = task_satp(current_task)
    /\ task_ctx[current_task] = "timer"
    /\ \E t \in Tasks : t # current_task /\ task_status[t] = "Exited"

\* C13: every task always has a status in {Ready, Running, Exited} and the
\* table always has NumApp entries; a status changes only Ready -> Running
\* (the task selected by run_first_task or run_next_task), Running -> Ready
\* (the current task, in the timer arm or sys_yield) or Running -> Exited
\* (the current task, in sys_exit or on a call the kernel kills the task
\* for).
C13_StatusTransitions ==
    /\ [](/\ DOMAIN task_status = 0 .. NumApp - 1
          /\ \A t \in Tasks : task_status[t] \in {"Ready", "Running", "Exited"})
    /\ [][\A t \in Tasks : task_status'[t] # task_status[t] =>
            \/ /\ task_status[t] = "Ready"
               /\ task_status'[t] = "Running"
               /\ pc' = "switched"
               /\ \/ pc = "boot" /\ t = 0
                  \/ pc = "trap_handler" /\ current_task' = t
            \/ /\ task_status[t] = "Running"
               /\ task_status'[t] = "Ready"
               /\ t = current_task
               /\ scause = "SupervisorTimer" \/ IsSyscall("sys_yield")
            \/ /\ task_status[t] = "Running"
               /\ task_status'[t] = "Exited"
               /\ t = current_task
               /\ IsSyscall("sys_exit") \/ IsSyscall("unknown")]_vars

\* the three transitions have all happened
C13_Witness ==
    /\ pc = "switched"
    /\ task_status[current_task] = "Running"
    /\ task_ctx[current_task] = "trap_return"
    /\ \E t \in Tasks : task_status[t] = "Exited" /\ task_ctx[t] = "sys_exit"
    /\ \E t \in Tasks : task_status[t] = "Ready" /\ task_ctx[t] = "sys_yield"

\* the allocator after the i-th call of fa_hist
FaAfter(i) == IF i = Len(fa_hist) THEN fa ELSE fa_hist[i + 1].before

Live == {p \in PPNs : trackers[p] > 0}

\* C14: under frame_alloc calls and FrameTracker drops, no frame_alloc
\* returned a PPN that a live FrameTracker held; every live PPN has one
\* tracker, is not in the recycled stack, and lies in [start, end); every PPN
\* handed out lies in [start, end).
C14_FramesHaveOneOwner ==
    /\ \A p \in PPNs : trackers[p] <= 1
    /\ Live \cap Range(fa.recycled) = {}
    /\ \A p \in Live : FaStart <= p /\ p < FaEnd
    /\ \A i \in 1 .. Len(fa_hist) :
          fa_hist[i].op = "alloc" /\ fa_hist[i].ppn # None =>
              /\ ~fa_hist[i].held
              /\ FaStart <= fa_hist[i].ppn
              /\ fa_hist[i].ppn < FaEnd

\* a recycled frame was handed out again while other frames are live and
\* one more waits in the recycled stack
C14_Witness ==
    /\ \E i \in 1 .. Len(fa_hist) :
          /\ fa_hist[i].op = "alloc"
          /\ fa_hist[i].before.recycled # <<>>
          /\ fa_hist[i].ppn \in Live
    /\ Cardinality(Live) >= 2
    /\ fa.recycled # <<>>

\* C15: an alloc right after a dealloc of p returns p; after k releases
\* p1..pk in a row, the next k allocs return pk..p1 and next_free does not
\* move.
C15_LifoReuse ==
    \A i \in 1 .. Len(fa_hist), k \in 1 .. Len(fa_hist) :
        (/\ i + 2 * k - 1 <= Len(fa_hist)
         /\ \A j \in 0 .. k - 1 : fa_hist[i + j].op = "dealloc"
         /\ \A j \in 0 .. k - 1 : fa_hist[i + k + j].op = "alloc")
        => \A j \in 0 .. k - 1 :
              /\ fa_hist[i + k + j].ppn = fa_hist[i + k - 1 - j].ppn
              /\ FaAfter(i + k + j).current = fa_hist[i].before.current

\* two frames were released in a row and came back in the opposite order
\* while never-used frames were left
C15_Witness ==
    \E i \in 1 .. Len(fa_hist) :
        /\ i + 3 <= Len(fa_hist)
        /\ fa_hist[i].op = "dealloc"
        /\ fa_hist[i + 1].op = "dealloc"
        /\ fa_hist[i + 2].op = "alloc"
        /\ fa_hist[i + 3].op = "alloc"
        /\ fa_hist[i + 2].ppn = fa_hist[i + 1].ppn
        /\ fa_hist[i + 3].ppn = fa_hist[i].ppn
        /\ fa_hist[i].ppn # fa_hist[i + 1].ppn
        /\ fa.current < fa.end

\* C16: dealloc(ppn) panics exactly when ppn is outside
\* [initial start, next_free) or already in the recycled stack, and then
\* leaves the allocator as it was; for every other ppn it pushes ppn onto
\* the recycled stack and changes nothing else.
C16_DeallocRejects ==
    \A i \in 1 .. Len(fa_hist) :
        fa_hist[i].op = "dealloc" =>
            LET b == fa_hist[i].before
                p == fa_hist[i].ppn
            IN  IF p < FaStart \/ p >= b.current \/ p \in Range(b.recycled)
                THEN fa_hist[i].panic /\ FaAfter(i) = b
                ELSE /\ ~fa_hist[i].panic
                     /\ FaAfter(i) = [b EXCEPT !.recycled = Append(@, p)]

\* C17: alloc returns none exactly when the recycled stack is empty and
\* next_free = end, and then leaves the allocator unchanged; otherwise it
\* returns the top of the recycled stack, which it pops, if the stack is
\* non-empty, and next_free, which it advances by one, if it is empty.
C17_AllocResult ==
    \A i \in 1 .. Len(fa_hist) :
        fa_hist[i].op = "alloc" =>
            LET b == fa_hist[i].before
                r == fa_hist[i].ppn
            IN  /\ r = None <=> (b.recycled = <<>> /\ b.current = b.end)
                /\ r = None => FaAfter(i) = b
                /\ b.recycled # <<>> =>
                     /\ r = b.recycled[Len(b.recycled)]
                     /\ FaAfter(i) = [b EXCEPT !.recycled =
                            SubSeq(@, 1, Len(@) - 1)]
                /\ b.recycled = <<>> /\ b.current # b.end =>
                     /\ r = b.current
                     /\ FaAfter(i) = [b EXCEPT !.current = @ + 1]

\* all three outcomes happened: a bump, a pop while never-used frames were
\* left, and none
C17_Witness ==
    /\ \E i \in 1 .. Len(fa_hist) :
          /\ fa_hist[i].op = "alloc"
          /\ fa_hist[i].before.recycled # <<>>
          /\ fa_hist[i].before.current # fa_hist[i].before.end
    /\ \E i \in 1 .. Len(fa_hist) :
          fa_hist[i].op = "alloc" /\ fa_hist[i].ppn = None
    /\ fa_hist[1].op = "alloc"
    /\ fa_hist[1].ppn = FaStart

\* C18: at the step in which frame_alloc returns a frame, the frame holds
\* only zeros, whatever it held before.
C18_AllocatedFrameIsZero ==
    [][(/\ Len(fa_hist') = Len(fa_hist) + 1
        /\ fa_hist'[Len(fa_hist')].op = "alloc"
        /\ fa_hist'[Len(fa_hist')].ppn # None)
       => mem'[fa_hist'[Len(fa_hist')].ppn] = ZeroPage]_vars

\* a frame that was allocated, written and released has just been handed
\* out again
C18_Witness ==
    /\ Len(fa_hist) >= 3
    /\ fa_hist[Len(fa_hist)].op = "alloc"
    /\ fa_hist[Len(fa_hist)].dirty
    /\ fa_hist[Len(fa_hist)].before.recycled # <<>>
    /\ fa_hist[Len(fa_hist) - 1].op = "dealloc"
    /\ mem[fa_hist[Len(fa_hist)].ppn] = ZeroPage

\* C19: while a map(vpn, ppn, flags) is in force, translate(vpn) returns an
\* entry whose PPN is ppn and whose flags are flags with V, whatever maps
\* and unmaps of other pages happened since.
C19_MapThenTranslate ==
    \A vpn \in VPNs :
        mapped[vpn] # NotMapped =>
            LET pte == translate(pt, mem, vpn)
            IN  /\ pte # None
                /\ pte_ppn(pte) = mapped[vpn].ppn
                /\ pte_flags(pte) = with_V(mapped[vpn].flags)
                /\ is_valid(pte)

\* pages 0 and PtEntries^2 share a third-level page and are mapped, with
\* different frames and flags; page PtEntries, on the same second-level
\* page, was mapped and unmapped again
C19_Witness ==
    /\ mm_pc = "run"
    /\ mapped[0] = [ppn |-> FaStart + NumFrames, flags |-> PTE_R]
    /\ mapped[PtEntries * PtEntries] # NotMapped
    /\ mapped[PtEntries * PtEntries].ppn = 0
    /\ mapped[PtEntries] = NotMapped
    /\ find_pte_mut(pt, mem, PtEntries) # NoPte
    /\ translate(pt, mem, 0) =
           PageTableEntry_new(FaStart + NumFrames, PTE_R + PTE_V)

\* C20: translate(vpn) returns none for every page that has no map in
\* force: never mapped, or unmapped since, whether or not its third-level
\* page exists.
C20_TranslateNoneUnlessMapped ==
    \A vpn \in VPNs :
        mapped[vpn] = NotMapped => translate(pt, mem, vpn) = None

\* third-level entry of a VPN as a number: an entry that cannot be reached
\* counts as the empty entry
LeafOf(p, m, vpn) ==
    LET e == translate(p, m, vpn) IN IF e = None THEN 0 ELSE e

\* C30: map(vpn, ppn, flags) on a VPN whose third-level entry is valid is
\* fatal and changes neither the page table, the memory nor the allocator;
\* a map that succeeds leaves PageTableEntry(ppn, flags | V) in the entry of
\* vpn and the third-level entry of every other VPN as it was.
C30_MapFatalOrExact ==
    mm_pc = "run" /\ pt # NoPageTable =>
        \A vpn \in MapVpns, ppn \in MapPpns, flags \in MapFlags :
            LET s0 == [fa |-> fa, mem |-> mem, pt |-> pt, panic |-> FALSE]
                s == page_table_map(s0, vpn, ppn, flags)
            IN  /\ is_valid(LeafOf(pt, mem, vpn)) => s.panic /\ s = [s0 EXCEPT !.panic = TRUE]
                /\ ~s.panic =>
                      /\ translate(s.pt, s.mem, vpn) =
                             PageTableEntry_new(ppn, with_V(flags))
                      /\ \A w \in VPNs \ {vpn} :
                             LeafOf(s.pt, s.mem, w) = LeafOf(pt, mem, w)

\* a map was refused while two VPNs are mapped, each entry as map wrote it
C30_Witness ==
    /\ mm_pc = "panic"
    /\ \E v, w \in MapVpns :
          /\ v # w
          /\ mapped[v] # NotMapped
          /\ mapped[w] # NotMapped
          /\ translate(pt, mem, v) =
                 PageTableEntry_new(mapped[v].ppn, with_V(mapped[v].flags))
          /\ translate(pt, mem, w) =
                 PageTableEntry_new(mapped[w].ppn, with_V(mapped[w].flags))


\* frames in use: next_free minus the size of the recycled stack
LiveCount(a) == a.current - Len(a.recycled)

\* C23: after a memory set built by from_elf, or by default and pushes, is
\* dropped, the allocator has as many frames in use as before the memory set
\* was built, every frame the set held is on the recycled stack once, and
\* the drop never runs into the double-free panic.
C23_DropReleasesEveryFrame ==
    /\ ms.pc # "drop_panic"
    /\ ms.pc = "dropped" =>
          /\ LiveCount(fa) = LiveCount(ms.fa0)
          /\ \A i \in 1 .. Len(ms.held) :
                Cardinality({j \in 1 .. Len(fa.recycled) :
                                fa.recycled[j] = ms.held[i]}) = 1
          /\ \A i, j \in 1 .. Len(ms.held) : ms.held[i] = ms.held[j] => i = j

\* a memory set of from_elf with two LOAD segments was dropped, built on an
\* allocator whose recycled stack was not empty
C23_Witness ==
    /\ ms.pc = "dropped"
    /\ Len(ms.elf.phs) = 2
    /\ ms.fa0.recycled # <<>>
    /\ Len(ms.held) > 6

\* the area of the user stack in a memory set of from_elf: the one pushed
\* after the areas of the LOAD segments
UserStackArea == areas[Len(ms.elf.phs) + 1]

\* C24: in the address space from_elf returns, whatever the order of the
\* LOAD program headers, the first page of the user stack is above the last
\* page of every LOAD segment, the page below the stack is not mapped, and
\* the user stack pointer returned is the stack bottom plus USER_STACK_SIZE.
C24_StackAboveEverySegment ==
    ms.pc = "user" =>
        /\ \A i \in 1 .. Len(ms.elf.phs) :
              areas[i].end - 1 < UserStackArea.start
        /\ ~is_valid(LeafOf(pt, mem, UserStackArea.start - 1))
        /\ ms.user_sp
               = VirtPageNum_get_addr0(UserStackArea.start) + USER_STACK_SIZE

\* the byte at the virtual address va read through the page table p, or
\* none when the page of va has no valid third-level entry
ByteAt(p, m, va) ==
    LET pte == LeafOf(p, m, VirtAddr_floor(va))
    IN  IF is_valid(pte) THEN m[pte_ppn(pte)][va % PAGE_SIZE] ELSE None

\* C25: in the address space from_elf returns, for every LOAD segment with
\* virtual address v, file size f and memory size m, the byte at v + k is
\* byte k of the file for k < f and 0 for f <= k < m, whether or not v is
\* page-aligned.
C25_SegmentBytesAtTheirAddress ==
    ms.pc = "user" =>
        \A i \in 1 .. Len(ms.elf.phs) :
            LET ph == ms.elf.phs[i]
            IN  \A k \in 0 .. ph.mem_size - 1 :
                    ByteAt(pt, mem, ph.virtual_addr + k)
                        = IF k < Len(ph.file) THEN ph.file[k + 1] ELSE 0

\* C29: for every area kept in a memory set, every page of its range has a
\* valid third-level entry whose flags are the permissions of the area with
\* V and whose PPN is the page number itself (Identical) or the frame
\* recorded for the page in data_frames (Framed), no frame recorded twice.
C29_AreaPagesMapped ==
    ms.pc \in {"user", "custom"} =>
        \A i \in 1 .. Len(areas) :
            LET a == areas[i]
            IN  /\ \A vpn \in a.start .. a.end - 1 :
                      LET pte == LeafOf(pt, mem, vpn)
                      IN  /\ is_valid(pte)
                          /\ pte_flags(pte) = with_V(a.map_perm)
                          /\ IF a.map_type = "Identical"
                             THEN pte_ppn(pte) = vpn
                             ELSE /\ vpn \in DOMAIN a.data_frames
                                  /\ pte_ppn(pte) = a.data_frames[vpn]
                /\ \A v, w \in DOMAIN a.data_frames :
                      a.data_frames[v] = a.data_frames[w] => v = w

\* a memory set built by hand keeps an Identical area and a Framed area of
\* two pages
C29_Witness ==
    /\ ms.pc = "custom"
    /\ Len(areas) = 2
    /\ areas[1].map_type = "Identical"
    /\ areas[2].map_type = "Framed"
    /\ areas[2].end = areas[2].start + 2

\* the flag f (one bit) is set in the entry
HasFlag(pte, f) == (pte_flags(pte) \div f) % 2 = 1

TrampolinePage == VirtAddr_floor(VirtAddr_from(TRAMPOLINE_ADDR))

TrapContextPage == VirtAddr_floor(VirtAddr_from(TRAP_CONTEXT_ADDR))

\* the pages of the LOAD segments and of the user stack of an address space
\* built by from_elf
UserPages(u) ==
    UNION {VirtAddr_floor(u.elf.phs[i].virtual_addr)
               .. VirtAddr_ceil(u.elf.phs[i].virtual_addr
                                + u.elf.phs[i].mem_size) - 1 :
              i \in 1 .. Len(u.elf.phs)}
    \cup (VirtAddr_floor(u.user_sp - USER_STACK_SIZE)
              .. VirtAddr_floor(u.user_sp) - 1)

\* C26: in every address space built by from_elf the valid entries with U
\* are exactly those of the LOAD-segment pages and the user-stack pages,
\* the trampoline page is R|X without U on the frame of strampoline, the
\* trap-context page is R|W without U; in the kernel address space, with
\* the kernel stacks of the tasks, no entry has U and the trampoline page
\* is on the same frame.
C26_UserFlagPlacement ==
    ms.pc = "kernel" =>
        /\ \A t \in 1 .. Len(ms.user) :
              LET u == ms.user[t]
              IN  /\ \A vpn \in VPNs :
                        LET pte == LeafOf(u.pt, mem, vpn)
                        IN  (is_valid(pte) /\ HasFlag(pte, PTE_U))
                                <=> vpn \in UserPages(u)
                  /\ LeafOf(u.pt, mem, TrampolinePage)
                         = PageTableEntry_new(strampoline \div PAGE_SIZE,
                                              PTE_V + PTE_R + PTE_X)
                  /\ pte_flags(LeafOf(u.pt, mem, TrapContextPage))
                         = PTE_V + PTE_R + PTE_W
        /\ \A vpn \in VPNs : ~HasFlag(LeafOf(pt, mem, vpn), PTE_U)
        /\ LeafOf(pt, mem, TrampolinePage)
               = PageTableEntry_new(strampoline \div PAGE_SIZE,
                                    PTE_V + PTE_R + PTE_X)

\* the kernel space with the kernel stack of a task, and the address space
\* of the task with two LOAD segments
C26_Witness ==
    /\ ms.pc = "kernel"
    /\ Len(ms.user) = 1
    /\ Len(ms.user[1].elf.phs) = 2
    /\ Len(areas) = 6

\* the pages from the address lo up to the address hi
PagesOf(lo, hi) == VirtAddr_floor(lo) .. VirtAddr_ceil(hi) - 1

\* the third-level entry of the kernel space for vpn is valid, has exactly
\* the flags perm and V, and maps the page to itself
KernelPage(vpn, perm) ==
    LET pte == LeafOf(pt, mem, vpn)
    IN  /\ pte_flags(pte) = PTE_V + perm
        /\ pte_ppn(pte) = vpn

\* C27: in the kernel memory set every page of .text is R|X, every page of
\* .rodata is R only, every page of .data and of .bss is R|W, and each of
\* these pages is mapped to itself.
C27_KernelSections ==
    ms.pc = "kernel" =>
        LET L == ms.layout
        IN  /\ \A vpn \in PagesOf(L.stext, L.etext) :
                  KernelPage(vpn, PTE_R + PTE_X)
            /\ \A vpn \in PagesOf(L.srodata, L.erodata) :
                  KernelPage(vpn, PTE_R)
            /\ \A vpn \in PagesOf(L.sdata, L.edata) :
                  KernelPage(vpn, PTE_R + PTE_W)
            /\ \A vpn \in PagesOf(L.sbss_with_stack, L.ebss) :
                  KernelPage(vpn, PTE_R + PTE_W)

\* the kernel memory set is built for a kernel whose .text and .rodata have
\* two pages each
C27_Witness ==
    /\ ms.pc = "kernel"
    /\ ms.layout.etext = ms.layout.stext + 2 * PAGE_SIZE
    /\ ms.layout.erodata = ms.layout.srodata + 2 * PAGE_SIZE
    /\ Len(areas) >= 5

\* the bytes of the slices from the i-th on, one after the other
RECURSIVE SliceBytes(_, _, _)
SliceBytes(m, res, i) ==
    IF i > Len(res) THEN <<>>
    ELSE [j \in 1 .. res[i].hi - res[i].lo |-> m[res[i].ppn][res[i].lo + j - 1]]
         \o SliceBytes(m, res, i + 1)

\* every page of the buffer of the call has a valid third-level entry
TbbAllMapped ==
    \A a \in tbb.start_addr .. tbb.end_addr - 1 :
        is_valid(LeafOf(pt, mem, VirtAddr_floor(VirtAddr_from(a))))

\* C21: translated_byte_buffer(token, ptr, len) on a buffer whose pages are
\* mapped returns, for every ptr and len, slices whose bytes one after the
\* other are the len bytes at ptr .. ptr + len read through the page table;
\* it does not fill the heap with slices instead of returning.
C21_SlicesAreTheBuffer ==
    tbb.pc # "idle" /\ TbbAllMapped =>
        /\ tbb.pc # "oom"
        /\ tbb.pc = "done" =>
              SliceBytes(mem, tbb.res, 1)
                  = [k \in 1 .. tbb.end_addr - tbb.start_addr |->
                        ByteAt(pt, mem, tbb.start_addr + k - 1)]

\* C22: translated_byte_buffer does not return when a page of the buffer
\* has no valid third-level entry, whether the third-level page is missing
\* or the entry in it is not valid.
C22_UnmappedPagePanics ==
    tbb.pc # "idle" /\ ~TbbAllMapped => tbb.pc # "done"

\* C28: wait and waitpid never return -2; sys_waitpid is called again, for
\* the same pid, only after an answer -2 and one yield_() for each such
\* answer; what is returned is the first answer other than -2, unchanged;
\* the call returns only after such an answer, and once the kernel has
\* given one the call returns.
C28_WaitRetriesUntilAnswer ==
    /\ [](uw.pc # "idle" =>
            /\ uw.pc \in {"syscall", "yield"} => uw.others = 0
            /\ uw.pc = "syscall" => uw.yields = uw.minus2
            /\ uw.pc = "yield" =>
                  uw.answer = -2 /\ uw.minus2 = Count(uw.yields)
            /\ uw.pc \in {"match", "yield", "return"} => uw.asked = uw.pid
            /\ uw.pc = "return" =>
                  /\ uw.ret # -2
                  /\ uw.ret = uw.answer
                  /\ uw.others = 1
                  /\ uw.yields = uw.minus2)
    /\ (uw.pc = "match" /\ uw.answer # -2) ~> (uw.pc = "return")

\* waitpid returned the PID the kernel gave after two answers -2
C28_Witness ==
    /\ uw.pc = "return"
    /\ uw.fn = "waitpid"
    /\ uw.ret = uw.pid
    /\ uw.minus2 = 2
    /\ uw.yields = 2

\* the valid entries of the first two levels on the path of a VPN, as
\* find_pte_mut reads them: none where the walk stops
InteriorOf(p, m, vpn) ==
    LET idxs == get_sv39_indexes(vpn)
        e1 == m[p.root_ppn][idxs[1]]
        e2 == m[pte_ppn(e1)][idxs[2]]
    IN  IF ~is_valid(e1) THEN <<None, None>>
        ELSE IF ~is_valid(e2) THEN <<e1, None>>
        ELSE <<e1, e2>>

\* C31: unmap(vpn) on a VPN whose third-level entry is not valid, or whose
\* first- or second-level entry is not valid, is fatal and changes nothing;
\* an unmap that succeeds leaves the empty entry for vpn, the third-level
\* entry of every other VPN as it was, and every frame of the page table
\* owned, allocated and linked as before.
C31_UnmapFatalOrExact ==
    mm_pc = "run" /\ pt # NoPageTable =>
        \A vpn \in MapVpns :
            LET s0 == [fa |-> fa, mem |-> mem, pt |-> pt, panic |-> FALSE]
                s == page_table_unmap(s0, vpn)
                loc == find_pte_mut(pt, mem, vpn)
            IN  /\ (loc = NoPte \/ ~is_valid(LeafOf(pt, mem, vpn))) =>
                      s = [s0 EXCEPT !.panic = TRUE]
                /\ (loc # NoPte /\ is_valid(LeafOf(pt, mem, vpn))) =>
                      ~s.panic
                /\ ~s.panic =>
                      /\ translate(s.pt, s.mem, vpn) = 0
                      /\ \A w \in VPNs \ {vpn} :
                             LeafOf(s.pt, s.mem, w) = LeafOf(pt, mem, w)
                      /\ s.fa = fa
                      /\ s.pt = pt
                      /\ \A w \in VPNs :
                             InteriorOf(s.pt, s.mem, w)
                                 = InteriorOf(pt, mem, w)

\* a page was unmapped and its third-level page, which holds no valid entry
\* any more, is still linked and owned, while another page is mapped
C31_Witness ==
    /\ mm_pc = "run"
    /\ \E v, w \in MapVpns :
          /\ mapped[v] = NotMapped
          /\ mapped[w] # NotMapped
          /\ find_pte_mut(pt, mem, v) # NoPte
          /\ find_pte_mut(pt, mem, v).ppn # find_pte_mut(pt, mem, w).ppn
          /\ mem[find_pte_mut(pt, mem, v).ppn] = ZeroPage
          /\ \E i \in 1 .. Len(pt.frames) :
                pt.frames[i] = find_pte_mut(pt, mem, v).ppn
          /\ translate(pt, mem, w) =
                 PageTableEntry_new(mapped[w].ppn, with_V(mapped[w].flags))

\* the number of entries of the first two levels that the walk for a VPN
\* does not find valid
MissingLevels(p, m, vpn) ==
    LET i == InteriorOf(p, m, vpn)
    IN  IF i[1] = None THEN 2 ELSE IF i[2] = None THEN 1 ELSE 0

\* the words of memory outside the frames fs and other than the words locs
SameElsewhere(m1, m2, fs, locs) ==
    \A q \in DOMAIN m1, j \in PageIdx :
        (q \notin fs /\ <<q, j>> \notin locs) => m2[q][j] = m1[q][j]

\* C32: find_pte_create_mut allocates one frame for each entry of the first
\* two levels on the path of the VPN that is not valid, and no other: the
\* entry becomes PageTableEntry(frame, V), the frame is appended to frames,
\* entries that were valid stay, and nothing else in memory changes; the
\* walk of find_pte_mut, as unmap uses it, leaves allocator, frames and the
\* entries of the first two levels alone.
C32_WalkAllocatesOnlyMissingLevels ==
    mm_pc = "run" /\ pt # NoPageTable =>
        \A vpn \in MapVpns :
            LET c == find_pte_create_mut(fa, mem, pt, vpn)
                n == MissingLevels(pt, mem, vpn)
                before == InteriorOf(pt, mem, vpn)
                p2 == [pt EXCEPT !.frames = c.frames]
                after == InteriorOf(p2, c.mem, vpn)
                idxs == get_sv39_indexes(vpn)
                new == {c.frames[i] : i \in Len(pt.frames) + 1 .. Len(c.frames)}
                u == page_table_unmap(
                         [fa |-> fa, mem |-> mem, pt |-> pt, panic |-> FALSE],
                         vpn)
            IN  /\ ~c.panic =>
                      /\ Len(c.frames) = Len(pt.frames) + n
                      /\ n <= 2
                      /\ SubSeq(c.frames, 1, Len(pt.frames)) = pt.frames
                      /\ LiveCount(c.fa) = LiveCount(fa) + n
                      /\ Cardinality(new) = n
                      /\ \A f \in new : \A i \in 1 .. Len(pt.frames) :
                             pt.frames[i] # f
                      /\ \A k \in 1 .. 2 :
                            IF before[k] # None THEN after[k] = before[k]
                            ELSE after[k] = PageTableEntry_new(
                                     c.frames[Len(c.frames) - (2 - k)],
                                     PTE_V)
                      /\ c.loc = find_pte_mut(p2, c.mem, vpn)
                      /\ SameElsewhere(
                             mem, c.mem, new,
                             {<<pt.root_ppn, idxs[1]>>,
                              <<pte_ppn(after[1]), idxs[2]>>})
                      /\ \A f \in new :
                            \A j \in PageIdx :
                                <<f, j>> # <<pte_ppn(after[1]), idxs[2]>>
                                    => c.mem[f][j] = 0
                      /\ n = 0 => c.fa = fa /\ c.mem = mem
                /\ u.fa = fa
                /\ u.pt = pt
                /\ \A w \in VPNs : InteriorOf(u.pt, u.mem, w)
                                       = InteriorOf(pt, mem, w)

\* pages 0 and PtEntries are mapped: the walk for the first took two frames,
\* the walk for the second one, the second-level page being shared
C32_Witness ==
    /\ mm_pc = "run"
    /\ mapped[0] # NotMapped
    /\ mapped[PtEntries] # NotMapped
    /\ Len(pt.frames) = 4
    /\ InteriorOf(pt, mem, 0)[1] = PageTableEntry_new(pt.frames[2], PTE_V)
    /\ InteriorOf(pt, mem, PtEntries)[1] = InteriorOf(pt, mem, 0)[1]
    /\ {InteriorOf(pt, mem, 0)[2], InteriorOf(pt, mem, PtEntries)[2]}
           = {PageTableEntry_new(pt.frames[3], PTE_V),
              PageTableEntry_new(pt.frames[4], PTE_V)}

\* the indices of a VPN from the top level down: bits 26..18, bits 17..9,
\* bits 8..0, with PtEntries entries a level
TopLevelFirst(vpn) ==
    <<(vpn \div (PtEntries * PtEntries)) % PtEntries,
      (vpn \div PtEntries) % PtEntries,
      vpn % PtEntries>>

\* C33: the indices of a VPN come top level first, element 0 is bits 26..18,
\* element 1 bits 17..9, element 2 bits 8..0, and the walk uses them in this
\* order from the root page: for a mapped VPN the entry of the root page at
\* the index of bits 26..18 is valid, the entry it leads to at the index of
\* bits 17..9 is valid, and the entry map wrote is at the index of bits 8..0
\* of the page that one leads to.
C33_IndexesTopLevelFirst ==
    \A vpn \in VPNs :
        mapped[vpn] # NotMapped =>
            LET t == TopLevelFirst(vpn)
                e1 == mem[pt.root_ppn][t[1]]
                e2 == mem[pte_ppn(e1)][t[2]]
            IN  /\ get_sv39_indexes(vpn) = t
                /\ is_valid(e1)
                /\ pte_ppn(e1) \in DOMAIN mem
                /\ is_valid(e2)
                /\ pte_ppn(e2) \in DOMAIN mem
                /\ mem[pte_ppn(e2)][t[3]]
                       = PageTableEntry_new(mapped[vpn].ppn,
                                            with_V(mapped[vpn].flags))

\* C34: for the loaded tasks i # j the kernel stacks [bottom_i, top_i) of
\* kernel_stack_pos are disjoint; between the stacks of i and i + 1 lies
\* exactly one page, and that page has no valid entry in the kernel space;
\* top_0 is TRAMPOLINE_ADDR, so no stack holds the trampoline page; no
\* subtraction goes below zero; each stack page is mapped R|W.
C34_KernelStacksApart ==
    ms.pc \in {"kernel", "panic"} =>
        LET loaded == 0 .. Len(ms.user) - 1
        IN  /\ kernel_stack_pos(0).top = TRAMPOLINE_ADDR
            /\ \A i \in loaded :
                  LET k == kernel_stack_pos(i)
                  IN  /\ 0 <= k.bottom
                      /\ k.bottom < k.top
                      /\ k.top <= TRAMPOLINE_ADDR
                      /\ k.top - k.bottom = KERNEL_STACK_SIZE
                      /\ VirtAddr_from(k.bottom) = k.bottom
                      /\ VirtAddr_from(k.top) = k.top
                      /\ TrampolinePage \notin PagesOf(k.bottom, k.top)
                      /\ \A vpn \in PagesOf(k.bottom, k.top) :
                            /\ pte_flags(LeafOf(pt, mem, vpn))
                                   = PTE_V + PTE_R + PTE_W
                            /\ pte_ppn(LeafOf(pt, mem, vpn))
                                   # strampoline \div PAGE_SIZE
            /\ \A i \in loaded, j \in loaded :
                  LET ki == kernel_stack_pos(i)
                      kj == kernel_stack_pos(j)
                  IN  /\ i # j => ki.top <= kj.bottom \/ kj.top <= ki.bottom
                      /\ j = i + 1 =>
                            /\ ki.bottom - kj.top = PAGE_SIZE
                            /\ ~is_valid(LeafOf(pt, mem,
                                                VirtAddr_floor(kj.top)))

\* every application is loaded: the kernel space holds NumApp kernel stacks
C34_Witness ==
    /\ ms.pc = "kernel"
    /\ Len(ms.user) = NumApp
    /\ NumApp >= 2
    /\ \A i \in 0 .. NumApp - 1 :
          is_valid(LeafOf(pt, mem,
                          VirtAddr_floor(kernel_stack_pos(i).bottom)))

\* C35: the token of a memory set has mode Sv39, ASID 0 and the root PPN in
\* its PPN field, whatever token satp held when it was made; from_satp of
\* the token gives a page table with the root PPN of the memory set and no
\* frame of its own, so that its drop releases nothing; this holds for the
\* kernel space, for the kernel token kept for each task, and for the
\* address space of each task.
C35_TokenRoundTrip ==
    ms.pc = "kernel" =>
        LET tables == {pt} \cup {ms.user[t].pt : t \in 1 .. Len(ms.user)}
            regs == {ms.satp} \cup {MemorySet_token(p, ms.satp) : p \in tables}
        IN  /\ \A p \in tables, reg \in regs :
                  LET token == MemorySet_token(p, reg)
                      d == PageTable_from_satp(token)
                  IN  /\ SatpMode(token) = Mode_Sv39
                      /\ SatpAsid(token) = 0
                      /\ SatpPpn(token) = p.root_ppn
                      /\ d.root_ppn = p.root_ppn
                      /\ d.frames = <<>>
                      /\ MemorySet_drop(fa, d, <<>>) = [panic |-> FALSE,
                                                        fa |-> fa]
            /\ ms.satp = MemorySet_token(pt, 0)
            /\ \A t \in 1 .. Len(ms.user) :
                  PageTable_from_satp(ms.user[t].kernel_satp).root_ppn
                      = pt.root_ppn

\* satp holds the token of the kernel space and two tasks have address
\* spaces with other roots
C35_Witness ==
    /\ ms.pc = "kernel"
    /\ Len(ms.user) >= 2
    /\ SatpPpn(ms.satp) = pt.root_ppn
    /\ ms.user[1].pt.root_ppn # pt.root_ppn
    /\ ms.user[2].pt.root_ppn # ms.user[1].pt.root_ppn
    /\ ms.user[2].kernel_satp = ms.satp

\* C36: stvec follows the privilege mode: it holds the address of
\* trap_from_kernel while the kernel runs after the first statement of
\* trap_handler, also in the kernel context of the task that __switch
\* enters, at a panic and at shutdown; it holds TRAMPOLINE_ADDR whenever a
\* task runs in U-mode, its first entry included, so that a trap from
\* U-mode arrives at trap_handler through __alltraps with stvec still
\* TRAMPOLINE_ADDR.
C36_TrapVectorFollowsMode ==
    /\ pc = "user" => stvec = "TRAMPOLINE_ADDR"
    /\ pc = "trap_handler" => stvec = "TRAMPOLINE_ADDR"
    /\ pc \in {"switched", "panic", "shutdown"} => stvec = "trap_from_kernel"

\* a task that has not run yet was switched in from the handler of a timer
\* interrupt taken in another task
C36_Witness ==
    /\ pc = "switched"
    /\ current_task # 0
    /\ task_ctx[current_task] = "trap_return"
    /\ task_ctx[0] = "timer"
    /\ scause = "SupervisorTimer"
    /\ stvec = "trap_from_kernel"

\* C37: on a buffer whose pages are all mapped every round of the loop of
\* translated_byte_buffer translates the page that holds the cursor and
\* leaves the cursor strictly greater, so that the loop ends, also for a
\* buffer that crosses page boundaries.
C37_CursorAdvances ==
    [][(tbb.pc = "loop" /\ tbb.current < tbb.end_addr /\ TbbAllMapped) =>
           /\ VirtAddr_floor(tbb_va(tbb))
                  = VirtAddr_floor(VirtAddr_from(tbb.current))
           /\ tbb'.pc = "loop"
           /\ tbb'.current > tbb.current]_vars

\* C38: whenever a task runs in U-mode, tasks[current_task] is Running, no
\* other task is, and every other task is Ready or Exited; current_task
\* changes only in run_next_task, called by suspend_current_and_run_next
\* from the timer arm or sys_yield, or by exit_current_and_run_next, and
\* the task it names then is the one marked Running.
C38_OneRunningTask ==
    /\ [](pc = "user" =>
            /\ task_status[current_task] = "Running"
            /\ \A t \in Tasks \ {current_task} :
                  task_status[t] \in {"Ready", "Exited"})
    /\ [][current_task' # current_task =>
            /\ pc = "trap_handler"
            /\ pc' = "switched"
            /\ task_status'[current_task'] = "Running"
            /\ task_status'[current_task] \in {"Ready", "Exited"}
            /\ \/ /\ klog'[Len(klog')] = "suspend_current_and_run_next"
                  /\ task_status'[current_task] = "Ready"
                  /\ scause = "SupervisorTimer" \/ IsSyscall("sys_yield")
               \/ /\ klog'[Len(klog')] = "exit_current_and_run_next"
                  /\ task_status'[current_task] = "Exited"
                  /\ scause = "UserEnvCall"]_vars

\* a task that yielded runs again in U-mode while one task waits after a
\* yield of its own and another has exited
C38_Witness ==
    /\ pc = "user"
    /\ task_status[current_task] = "Running"
    /\ task_ctx[current_task] = "sys_yield"
    /\ \E t \in Tasks \ {current_task} :
          task_status[t] = "Ready" /\ task_ctx[t] = "sys_yield"
    /\ \E t \in Tasks \ {current_task} :
          task_status[t] = "Exited" /\ task_ctx[t] = "sys_exit"

\* C39: no UPSafeCell is borrowed when __switch has run, nor while a task
\* is in U-mode or a trap arrives, and no kernel path has met the
\* nested-borrow panic of exclusive_access, whatever the order of yields,
\* exits and timer interrupts
C39_NoBorrowAcrossSwitch ==
    /\ pc = "switched" => cells.held = {}
    /\ pc \in {"user", "trap_handler"} => cells.held = {}
    /\ ~cells.panic

\* a task that was switched in by run_next_task is back in U-mode after a
\* trap of its own, while one task is preempted and another has exited
C39_Witness ==
    /\ pc = "user"
    /\ cells = NoBorrow
    /\ current_task # 0
    /\ klog = <<"sepc", "sys_write", "x10", "trap_return">>
    /\ \E t \in Tasks \ {current_task} :
          task_status[t] = "Ready" /\ task_ctx[t] = "timer"
    /\ \E t \in Tasks \ {current_task} : task_status[t] = "Exited"

\* the frames that the valid third-level entries of the address space u
\* lead to, and those among them that U-mode may use
LeafFrames(u) ==
    {pte_ppn(LeafOf(u.pt, mem, vpn)) :
        vpn \in {v \in VPNs : is_valid(LeafOf(u.pt, mem, v))}}

UserLeafFrames(u) ==
    {pte_ppn(LeafOf(u.pt, mem, vpn)) :
        vpn \in {v \in VPNs : /\ is_valid(LeafOf(u.pt, mem, v))
                               /\ HasFlag(LeafOf(u.pt, mem, v), PTE_U)}}

\* the frames whose trackers the page table p holds: its page-table pages
TableFrames(p) == {p.frames[i] : i \in 1 .. Len(p.frames)}

\* the frames that belong to the address space u: its page-table pages and
\* the data frames of its areas
OwnedFrames(u) ==
    TableFrames(u.pt)
    \cup UNION {{u.areas[i].data_frames[v] :
                     v \in DOMAIN u.areas[i].data_frames} :
                i \in 1 .. Len(u.areas)}

\* C40: the address spaces of the loaded tasks are isolated: two tasks
\* share no frame through valid third-level entries but the frame of the
\* trampoline, no entry with U leads to a page-table page of any address
\* space (the kernel's included) or to a frame that belongs to another
\* task, and the tasks have different trap-context frames.
C40_AddressSpacesIsolated ==
    ms.pc \in {"kernel", "panic"} =>
        \A i \in 1 .. Len(ms.user), j \in 1 .. Len(ms.user) :
            LET ui == ms.user[i]
                uj == ms.user[j]
            IN  /\ UserLeafFrames(ui)
                       \cap (TableFrames(uj.pt) \cup TableFrames(pt)) = {}
                /\ i # j =>
                      /\ LeafFrames(ui) \cap LeafFrames(uj)
                             \subseteq {strampoline \div PAGE_SIZE}
                      /\ UserLeafFrames(ui) \cap OwnedFrames(uj) = {}
                      /\ ui.trap_ctx_ppn # uj.trap_ctx_ppn

\* every application is loaded, each has user pages and a trap-context
\* frame, and the trampoline frame is in every address space
C40_Witness ==
    /\ ms.pc = "kernel"
    /\ Len(ms.user) = NumApp
    /\ NumApp >= 2
    /\ \A i \in 1 .. NumApp :
          /\ UserLeafFrames(ms.user[i]) # {}
          /\ strampoline \div PAGE_SIZE \in LeafFrames(ms.user[i])
          /\ ms.user[i].trap_ctx_ppn \in LeafFrames(ms.user[i])
          /\ ms.user[i].trap_ctx_ppn \in OwnedFrames(ms.user[i])

====
